---- MODULE Spec2Model ----
(***************************************************************************)
(* The session memory and relevance-retrieval subsystem (class              *)
(* MemoryManager) as a state machine.                                       *)
(*                                                                          *)
(* A JavaScript string is a sequence of one-character strings, so that      *)
(* toLowerCase, includes and split are computed and not assumed.            *)
(* Date values are [date |-> n]; their JSON form is [iso |-> n].  The clock *)
(* counts whole days: Date.now() is `now`, and one day is 1000*60*60*24     *)
(* milliseconds of the source.                                              *)
(***************************************************************************)
EXTENDS Integers, Sequences, FiniteSets, TLC

(***************************************************************************)
(* Strings                                                                  *)
(***************************************************************************)
\* The values of a sequence
Range(seq) == {seq[i] : i \in 1..Len(seq)}

UpperCaseLetters == <<"A","B","C","D","E","F","G","H","I","J","K","L","M","N","O","P","Q","R","S","T","U","V","W","X","Y","Z">>

LowerCaseLetters == <<"a","b","c","d","e","f","g","h","i","j","k","l","m","n","o","p","q","r","s","t","u","v","w","x","y","z">>

\* The lower-case letter of each upper-case letter
LowerOf ==
  [c \in Range(UpperCaseLetters) |->
     LowerCaseLetters[CHOOSE i \in 1..Len(UpperCaseLetters) : UpperCaseLetters[i] = c]]

ToLowerChar(c) == IF c \in DOMAIN LowerOf THEN LowerOf[c] ELSE c

\* String.prototype.toLowerCase
ToLowerCase(s) == [i \in 1..Len(s) |-> ToLowerChar(s[i])]

\* String.prototype.includes: t occurs in s as a contiguous substring
Includes(s, t) ==
  \E i \in 0..(Len(s) - Len(t)) : SubSeq(s, i + 1, i + Len(t)) = t

\* String.prototype.split(' '): the pieces between single spaces, empty pieces kept
RECURSIVE SplitFrom(_, _, _)
SplitFrom(s, i, piece) ==
  IF i > Len(s) THEN <<piece>>
  ELSE IF s[i] = " " THEN <<piece>> \o SplitFrom(s, i + 1, <<>>)
  ELSE SplitFrom(s, i + 1, Append(piece, s[i]))

Split(s) == SplitFrom(s, 1, <<>>)

\* Array.prototype.join
RECURSIVE Join(_, _)
Join(strs, sep) ==
  IF strs = <<>> THEN <<>>
  ELSE IF Len(strs) = 1 THEN strs[1]
  ELSE strs[1] \o sep \o Join(Tail(strs), sep)

(***************************************************************************)
(* Entry extractor                                                          *)
(***************************************************************************)
\* The value `undefined`
Undefined == [undefined |-> TRUE]

\* The value `null`
Null == [null |-> TRUE]

\* A string where the type is `string | undefined`
Str(s) == [string |-> s]

\* new Date(): the clock reading t as a Date
NewDate(t) == [date |-> t]

\* Date.prototype.getTime
GetTime(d) == d.date

\* `memory_${Date.now()}_${Math.random().toString(36).substr(2, 9)}`: r numbers the
\* draws of Math.random(), whose nine-character suffixes are taken not to repeat
MemoryId(t, r) == [kind |-> "memory", time |-> t, rand |-> r]

\* `session_${Date.now()}_${Math.random().toString(36).substr(2, 9)}`
SessionId(t, r) == [kind |-> "session", time |-> t, rand |-> r]

specialties ==
  << <<"c","a","r","d","i","o","l","o","g","y">>, <<"n","e","u","r","o","l","o","g","y">>, <<"o","n","c","o","l","o","g","y">>, <<"e","n","d","o","c","r","i","n","o","l","o","g","y">>,
     <<"g","a","s","t","r","o","e","n","t","e","r","o","l","o","g","y">>, <<"p","u","l","m","o","n","o","l","o","g","y">>, <<"n","e","p","h","r","o","l","o","g","y">>, <<"i","n","f","e","c","t","i","o","u","s">>,
     <<"e","m","e","r","g","e","n","c","y">> >>

medicalTerms ==
  << <<"d","i","a","g","n","o","s","i","s">>, <<"t","r","e","a","t","m","e","n","t">>, <<"m","e","d","i","c","a","t","i","o","n">>, <<"s","y","m","p","t","o","m">>, <<"s","y","n","d","r","o","m","e">>,
     <<"d","i","s","e","a","s","e">>, <<"t","h","e","r","a","p","y">>, <<"s","u","r","g","e","r","y">>, <<"p","r","o","c","e","d","u","r","e">> >>

ageGroups ==
  << <<"n","e","w","b","o","r","n">>, <<"i","n","f","a","n","t">>, <<"t","o","d","d","l","e","r">>, <<"c","h","i","l","d">>, <<"a","d","o","l","e","s","c","e","n","t">>,
     <<"p","e","d","i","a","t","r","i","c">> >>

\* extractTags without its tests of the content: every word of the vocabularies
ExtractTagsOfAll(content) == specialties \o medicalTerms \o ageGroups

\* extractTags: the words of the three vocabularies found in the lowercased content

ExtractTags(content) ==
  LET lowerContent == ToLowerCase(content)
      found(w) == Includes(lowerContent, w)
  IN  SelectSeq(specialties, found) \o SelectSeq(medicalTerms, found)
        \o SelectSeq(ageGroups, found)

\* The rules of inferSpecialty, in the order of its if statements
specialtyRules ==
  << [a |-> <<"h","e","a","r","t">>,     b |-> <<"c","a","r","d","i","a","c">>,     is |-> <<"c","a","r","d","i","o","l","o","g","y">>],
     [a |-> <<"b","r","a","i","n">>,     b |-> <<"n","e","u","r","o">>,       is |-> <<"n","e","u","r","o","l","o","g","y">>],
     [a |-> <<"c","a","n","c","e","r">>,    b |-> <<"t","u","m","o","r">>,       is |-> <<"o","n","c","o","l","o","g","y">>],
     [a |-> <<"d","i","a","b","e","t","e","s">>,  b |-> <<"h","o","r","m","o","n","e">>,     is |-> <<"e","n","d","o","c","r","i","n","o","l","o","g","y">>],
     [a |-> <<"s","t","o","m","a","c","h">>,   b |-> <<"i","n","t","e","s","t","i","n">>,    is |-> <<"g","a","s","t","r","o","e","n","t","e","r","o","l","o","g","y">>],
     [a |-> <<"l","u","n","g">>,      b |-> <<"r","e","s","p","i","r","a","t","o","r","y">>, is |-> <<"p","u","l","m","o","n","o","l","o","g","y">>],
     [a |-> <<"k","i","d","n","e","y">>,    b |-> <<"r","e","n","a","l">>,       is |-> <<"n","e","p","h","r","o","l","o","g","y">>],
     [a |-> <<"i","n","f","e","c","t","i","o","n">>, b |-> <<"b","a","c","t","e","r","i","a">>,    is |-> <<"i","n","f","e","c","t","i","o","u","s"," ","d","i","s","e","a","s","e">>],
     [a |-> <<"e","m","e","r","g","e","n","c","y">>, b |-> <<"u","r","g","e","n","t">>,      is |-> <<"e","m","e","r","g","e","n","c","y"," ","m","e","d","i","c","i","n","e">>] >>

\* inferSpecialty with its if statements in the opposite order: the last rule one of
\* whose two keywords occurs
InferSpecialtyOfLast(content) ==
  LET lowerContent == ToLowerCase(content)
      hits == {k \in 1..Len(specialtyRules) :
                 \/ Includes(lowerContent, specialtyRules[k].a)
                 \/ Includes(lowerContent, specialtyRules[k].b)}
  IN  IF hits = {} THEN <<"g","e","n","e","r","a","l"," ","p","e","d","i","a","t","r","i","c","s">>
      ELSE specialtyRules[CHOOSE k \in hits : \A h \in hits : k >= h].is

\* inferSpecialty: the first rule one of whose two keywords occurs
InferSpecialty(content) ==
  LET lowerContent == ToLowerCase(content)
      hits == {k \in 1..Len(specialtyRules) :
                 \/ Includes(lowerContent, specialtyRules[k].a)
                 \/ Includes(lowerContent, specialtyRules[k].b)}
  IN  IF hits = {} THEN <<"g","e","n","e","r","a","l"," ","p","e","d","i","a","t","r","i","c","s">>
      ELSE specialtyRules[CHOOSE k \in hits : \A h \in hits : k <= h].is

\* \d of the regular expression
IsDigit(c) == c \in {"0", "1", "2", "3", "4", "5", "6", "7", "8", "9"}

\* \s of the regular expression
IsSpace(c) == c \in {" ", "\t", "\n", "\r"}

\* The position after the longest run of digits (of white space) that starts at p
RECURSIVE DigitsEnd(_, _)
DigitsEnd(s, p) ==
  IF p <= Len(s) /\ IsDigit(s[p]) THEN DigitsEnd(s, p + 1) ELSE p

RECURSIVE SpacesEnd(_, _)
SpacesEnd(s, p) ==
  IF p <= Len(s) /\ IsSpace(s[p]) THEN SpacesEnd(s, p + 1) ELSE p

\* word, matched at position p without regard to case (the i flag)
MatchesAt(s, p, word) ==
  /\ p + Len(word) - 1 <= Len(s)
  /\ ToLowerCase(SubSeq(s, p, p + Len(word) - 1)) = word

\* The alternatives (year|month|week|day)
ageUnits == << <<"y","e","a","r">>, <<"m","o","n","t","h">>, <<"w","e","e","k">>, <<"d","a","y">> >>

\* /(\d+)\s*(year|month|week|day)s?\s*old/i tried at position i: the two groups, or
\* Undefined.  Only the longest runs of \d+ and \s* can be followed by a match.
AgeMatchAt(s, i) ==
  IF ~IsDigit(s[i]) THEN Undefined
  ELSE
    LET p1 == DigitsEnd(s, i)
        p2 == SpacesEnd(s, p1)
        units == {k \in 1..Len(ageUnits) : MatchesAt(s, p2, ageUnits[k])}
    IN  IF units = {} THEN Undefined
        ELSE
          LET k  == CHOOSE u \in units : \A v \in units : u <= v
              p3 == p2 + Len(ageUnits[k])
              afterS == {p3} \cup (IF MatchesAt(s, p3, <<"s">>) THEN {p3 + 1} ELSE {})
          IN  IF \E p4 \in afterS : MatchesAt(s, SpacesEnd(s, p4), <<"o","l","d">>)
              THEN [number |-> SubSeq(s, i, p1 - 1), unit |-> SubSeq(s, p2, p3 - 1)]
              ELSE Undefined

ageTerms ==
  << <<"n","e","w","b","o","r","n">>, <<"i","n","f","a","n","t">>, <<"t","o","d","d","l","e","r">>, <<"p","r","e","s","c","h","o","o","l","e","r">>, <<"s","c","h","o","o","l","-","a","g","e">>,
     <<"a","d","o","l","e","s","c","e","n","t">> >>

\* extractAge: the leftmost match of the regular expression, normalised; else the
\* first age term found; else undefined
ExtractAge(content) ==
  LET starts == {i \in 1..Len(content) : AgeMatchAt(content, i) # Undefined}
      lowerContent == ToLowerCase(content)
      found  == SelectSeq(ageTerms, LAMBDA w : Includes(lowerContent, w))
  IN  IF starts # {}
      THEN LET m == AgeMatchAt(content, CHOOSE i \in starts : \A j \in starts : i <= j)
           IN  Str(m.number \o <<" ">> \o m.unit
                     \o (IF m.number # <<"1">> THEN <<"s">> ELSE <<>>) \o <<" ","o","l","d">>)
      ELSE IF found # <<>> THEN Str(found[1])
      ELSE Undefined

\* The first rule without its test of the role
MedicalFactFiresAnyRole(role, lowerContent) ==
  \/ Includes(lowerContent, <<"d","i","a","g","n","o","s","i","s">>)
  \/ Includes(lowerContent, <<"t","r","e","a","t","m","e","n","t">>)
  \/ Includes(lowerContent, <<"m","e","d","i","c","a","t","i","o","n">>)

\* The three rules of extractMemoriesFromContent, each with the test that fires it
MedicalFactFires(role, lowerContent) ==
  /\ role = "assistant"
  /\ \/ Includes(lowerContent, <<"d","i","a","g","n","o","s","i","s">>)
     \/ Includes(lowerContent, <<"t","r","e","a","t","m","e","n","t">>)
     \/ Includes(lowerContent, <<"m","e","d","i","c","a","t","i","o","n">>)

\* The second rule without its test of the role
UserPreferenceFiresAnyRole(role, lowerContent) ==
  \/ Includes(lowerContent, <<"p","r","e","f","e","r">>)
  \/ Includes(lowerContent, <<"a","l","w","a","y","s">>)
  \/ Includes(lowerContent, <<"n","e","v","e","r">>)

UserPreferenceFires(role, lowerContent) ==
  /\ role = "user"
  /\ \/ Includes(lowerContent, <<"p","r","e","f","e","r">>)
     \/ Includes(lowerContent, <<"a","l","w","a","y","s">>)
     \/ Includes(lowerContent, <<"n","e","v","e","r">>)

CaseContextFires(role, lowerContent) ==
  \/ Includes(lowerContent, <<"p","a","t","i","e","n","t">>)
  \/ Includes(lowerContent, <<"c","a","s","e">>)
  \/ Includes(lowerContent, <<"y","e","a","r"," ","o","l","d">>)

\* importance is kept in tenths: 8 is 0.8
MedicalFactEntry(content, t, r) ==
  [id |-> MemoryId(t, r), content |-> content, category |-> "medical_fact",
   importance |-> 8, timestamp |-> NewDate(t), tags |-> ExtractTags(content),
   metadata |-> [source |-> "conversation",
                 medical_specialty |-> InferSpecialty(content)]]

UserPreferenceEntry(content, t, r) ==
  [id |-> MemoryId(t, r), content |-> content, category |-> "user_preference",
   importance |-> 9, timestamp |-> NewDate(t), tags |-> ExtractTags(content),
   metadata |-> [source |-> "user_input"]]

CaseContextEntry(content, t, r) ==
  [id |-> MemoryId(t, r), content |-> content, category |-> "case_context",
   importance |-> 7, timestamp |-> NewDate(t), tags |-> ExtractTags(content),
   metadata |-> [source |-> "conversation", patient_age |-> ExtractAge(content)]]

\* The entries pushed so far by a rule that fired or did not: an id's random part
\* is drawn when its entry is built
Fired(fires) == IF fires THEN 1 ELSE 0

\* extractMemoriesFromContent at clock reading t, when r draws of Math.random() have
\* been made: the entries it builds, in the order it pushes them
ExtractMemoriesFromContent(content, role, t, r) ==
  (IF MedicalFactFires(role, ToLowerCase(content))
   THEN <<MedicalFactEntry(content, t, r)>> ELSE <<>>)
  \o (IF UserPreferenceFires(role, ToLowerCase(content))
      THEN <<UserPreferenceEntry(content, t, r + Fired(MedicalFactFires(role, ToLowerCase(content))))>>
      ELSE <<>>)
  \o (IF CaseContextFires(role, ToLowerCase(content))
      THEN <<CaseContextEntry(content, t,
                              r + Fired(MedicalFactFires(role, ToLowerCase(content)))
                                + Fired(UserPreferenceFires(role, ToLowerCase(content))))>>
      ELSE <<>>)

(***************************************************************************)
(* Relevance scorer and search                                              *)
(***************************************************************************)
\* The days of the decay window: 1 - (daysSinceCreated / 30)
DecayDays == 30

\* 1 + daysSinceCreated / 30 in place of 1 - daysSinceCreated / 30, times 30
DecayGrowing(age) == IF DecayDays + age > 3 THEN DecayDays + age ELSE 3

\* 1 - daysSinceCreated / 30 without Math.max(0.1, ...), times 30
DecayWithoutFloor(age) == DecayDays - age

\* Math.max(0.1, 1 - daysSinceCreated / 30), times 30
Decay(age) == IF DecayDays - age > 3 THEN DecayDays - age ELSE 3

\* lowerQuery.split(' ').filter(term => term.length > 2)
SearchTerms(lowerQuery) == SelectSeq(Split(lowerQuery), LAMBDA term : Len(term) > 2)

\* What one search term adds: 2 for the content, 3 for some tag
TermScore(memory, term) ==
  (IF Includes(ToLowerCase(memory.content), term) THEN 2 ELSE 0)
  + (IF \E k \in 1..Len(memory.tags) : Includes(ToLowerCase(memory.tags[k]), term)
     THEN 3 ELSE 0)

RECURSIVE TermsScore(_, _)
TermsScore(memory, terms) ==
  IF terms = <<>> THEN 0
  ELSE TermScore(memory, Head(terms)) + TermsScore(memory, Tail(terms))

\* The score before importance and recency: phrase match and term matches
BaseScore(memory, query) ==
  LET lowerQuery == ToLowerCase(query)
  IN  (IF Includes(ToLowerCase(memory.content), lowerQuery) THEN 10 ELSE 0)
      + TermsScore(memory, SearchTerms(lowerQuery))

\* The score of searchMemories at clock reading t, times 300 (importance is in
\* tenths, the decay in thirtieths), in exact arithmetic
Score(memory, query, t) ==
  BaseScore(memory, query) * memory.importance * Decay(t - GetTime(memory.timestamp))

\* .sort((a, b) => b.score - a.score): descending and stable
RECURSIVE InsertByScore(_, _)
InsertByScore(sorted, item) ==
  IF sorted = <<>> THEN <<item>>
  ELSE IF Head(sorted).score >= item.score
       THEN <<Head(sorted)>> \o InsertByScore(Tail(sorted), item)
       ELSE <<item>> \o sorted

\* The list without its .sort(...)
Unsorted(items) == items

RECURSIVE SortByScore(_)
SortByScore(items) ==
  IF items = <<>> THEN <<>>
  ELSE InsertByScore(SortByScore(SubSeq(items, 1, Len(items) - 1)), items[Len(items)])

\* Array.prototype.slice(0, end)
Slice(items, end) ==
  LET n == Len(items)
      e == IF end < 0 THEN (IF n + end > 0 THEN n + end ELSE 0)
           ELSE (IF end < n THEN end ELSE n)
  IN  SubSeq(items, 1, e)

\* The scored list of searchMemories
Scored(mems, query, t) ==
  [i \in 1..Len(mems) |-> [memory |-> mems[i], score |-> Score(mems[i], query, t)]]

\* searchMemories(query, limit) over the entries mems at clock reading t
SearchMemories(mems, query, limit, t) ==
  LET kept   == SelectSeq(Scored(mems, query, t), LAMBDA item : item.score > 0)
      top    == Slice(SortByScore(kept), limit)
  IN  [i \in 1..Len(top) |-> top[i].memory]

(***************************************************************************)
(* Session summary                                                          *)
(***************************************************************************)
conditions ==
  << <<"f","e","v","e","r">>, <<"c","o","u","g","h">>, <<"a","s","t","h","m","a">>, <<"d","i","a","b","e","t","e","s">>, <<"s","e","i","z","u","r","e">>, <<"i","n","f","e","c","t","i","o","n">>,
     <<"r","a","s","h">>, <<"p","a","i","n">> >>

\* messages.map(m => m.content)
Contents(messages) == [i \in 1..Len(messages) |-> messages[i].content]

\* extractKeyTopicsFromMessages: the conditions found in the joined, lowercased
\* contents ([...new Set(topics)] removes nothing: the conditions are distinct)
ExtractKeyTopicsFromMessages(messages) ==
  LET allContent == ToLowerCase(Join(Contents(messages), <<" ">>))
  IN  SelectSeq(conditions, LAMBDA condition : Includes(allContent, condition))

\* messages.slice(-10)
RecentMessages(messages) ==
  IF Len(messages) > 10 THEN SubSeq(messages, Len(messages) - 9, Len(messages))
  ELSE messages

\* updateConversationSummary with keyTopics computed from recentMessages too
UpdateConversationSummaryOfRecent(conversation) ==
  [conversation EXCEPT
     !.summary = <<"R","e","c","e","n","t"," ","d","i","s","c","u","s","s","i","o","n"," ","a","b","o","u","t"," ">>
                   \o Join(ExtractKeyTopicsFromMessages(RecentMessages(conversation.messages)),
                           <<","," ">>),
     !.keyTopics = ExtractKeyTopicsFromMessages(RecentMessages(conversation.messages))]

\* updateConversationSummary
UpdateConversationSummary(conversation) ==
  [conversation EXCEPT
     !.summary = <<"R","e","c","e","n","t"," ","d","i","s","c","u","s","s","i","o","n"," ","a","b","o","u","t"," ">>
                   \o Join(ExtractKeyTopicsFromMessages(RecentMessages(conversation.messages)),
                           <<","," ">>),
     !.keyTopics = ExtractKeyTopicsFromMessages(conversation.messages)]

\* getMemoryStats with totalMemories: Object.keys(categories).length
GetMemoryStatsOfCategories(mems, convs) ==
  LET cats == {mems[i].category : i \in 1..Len(mems)}
  IN  [totalMemories |-> Cardinality(cats),
       totalConversations |-> Len(convs),
       categories |-> [c \in cats |-> Cardinality({i \in 1..Len(mems) : mems[i].category = c})]]

\* getMemoryStats: categories maps each category that occurs to its count
GetMemoryStats(mems, convs) ==
  LET cats == {mems[i].category : i \in 1..Len(mems)}
  IN  [totalMemories |-> Len(mems),
       totalConversations |-> Len(convs),
       categories |-> [c \in cats |-> Cardinality({i \in 1..Len(mems) : mems[i].category = c})]]

(***************************************************************************)
(* The store: two Maps and the current-session pointer                      *)
(*                                                                          *)
(* A Map is the sequence of its <<key, value>> pairs in insertion order.    *)
(***************************************************************************)
MapHas(map, key) == \E i \in 1..Len(map) : map[i][1] = key

\* Map.prototype.get, for a key the map has
MapGet(map, key) == map[CHOOSE i \in 1..Len(map) : map[i][1] = key][2]

\* Map.prototype.set: a present key keeps its place, a new key goes last
MapSet(map, key, value) ==
  IF MapHas(map, key)
  THEN [i \in 1..Len(map) |-> IF map[i][1] = key THEN <<key, value>> ELSE map[i]]
  ELSE Append(map, <<key, value>>)

\* Array.from(map.values())
MapValues(map) == [i \in 1..Len(map) |-> map[i][2]]

\* new Map(pairs)
RECURSIVE NewMap(_)
NewMap(pairs) ==
  IF pairs = <<>> THEN <<>>
  ELSE MapSet(NewMap(SubSeq(pairs, 1, Len(pairs) - 1)),
              pairs[Len(pairs)][1], pairs[Len(pairs)][2])

\* The fields of a MemoryManager as its field initialisers leave them
EmptyManager == [memories |-> <<>>, conversations |-> <<>>, currentSessionId |-> Null]

(***************************************************************************)
(* Persistence.  The text JSON.stringify writes is kept as the tree         *)
(* JSON.parse reads from it: an array is [array |-> seq], a Date has        *)
(* become the string [iso |-> n], a property whose value is undefined is    *)
(* left out.                                                                *)
(***************************************************************************)
\* Date.prototype.toJSON; a value that is no Date is written as it is
DateToJSON(d) == IF "date" \in DOMAIN d THEN [iso |-> d.date] ELSE d

\* new Date(string)
DateFromJSON(v) == IF "iso" \in DOMAIN v THEN [date |-> v.iso] ELSE v

\* JSON.stringify of an object: a property whose value is undefined is left out
\* (field is the one property of obj whose type admits undefined)
DropUndefined(obj, field) ==
  IF field \in DOMAIN obj /\ obj[field] = Undefined
  THEN [f \in DOMAIN obj \ {field} |-> obj[f]]
  ELSE obj

EntryToJSON(memory) ==
  [memory EXCEPT !.timestamp = DateToJSON(memory.timestamp),
                 !.metadata = DropUndefined(memory.metadata, "patient_age")]

MessageToJSON(message) == [message EXCEPT !.timestamp = DateToJSON(message.timestamp)]

ConversationToJSON(conversation) ==
  LET dated == [conversation EXCEPT !.startTime = DateToJSON(conversation.startTime),
                                    !.lastActivity = DateToJSON(conversation.lastActivity)]
  IN  IF "messages" \in DOMAIN conversation
      THEN [dated EXCEPT !.messages =
              [array |-> [i \in 1..Len(conversation.messages) |->
                            MessageToJSON(conversation.messages[i])]]]
      ELSE dated

\* JSON.stringify(data) of saveToStorage
Stringify(m) ==
  DropUndefined(
    [memories |-> [array |-> [i \in 1..Len(m.memories) |->
                     <<m.memories[i][1], EntryToJSON(m.memories[i][2])>>]],
     conversations |-> [array |-> [i \in 1..Len(m.conversations) |->
                     <<m.conversations[i][1], ConversationToJSON(m.conversations[i][2])>>]],
     currentSessionId |-> m.currentSessionId],
    "currentSessionId")

\* What localStorage holds under 'nelson-gpt-memory'
NoItem == [kind |-> "absent"]

NotJSON == [kind |-> "invalid"]

Item(json) == [kind |-> "text", json |-> json]

\* saveToStorage without its try and catch: a throw of setItem leaves the call
SaveToStorageUncaught(m, stored, writeOk) ==
  [stored |-> IF writeOk THEN Item(Stringify(m)) ELSE stored, threw |-> ~writeOk]

\* saveToStorage: the item afterwards, and whether the call threw.  setItem throws
\* when writeOk is false; the catch logs it and the call returns
SaveToStorage(m, stored, writeOk) ==
  [stored |-> IF writeOk THEN Item(Stringify(m)) ELSE stored, threw |-> FALSE]

\* data.memories || []
OrEmptyArray(data, field) ==
  IF field \in DOMAIN data THEN data[field] ELSE [array |-> <<>>]

\* Whether new Map(v) accepts v
IsArray(v) == "array" \in DOMAIN v

\* memory.timestamp = new Date(0): the stored time is not read
ReviveEntryAtEpoch(memory) == [memory EXCEPT !.timestamp = NewDate(0)]

\* memory.timestamp = new Date(memory.timestamp)
ReviveEntry(memory) == [memory EXCEPT !.timestamp = DateFromJSON(memory.timestamp)]

\* The two date assignments of the conversations.forEach callback
ReviveDates(conversation) ==
  [conversation EXCEPT !.startTime = DateFromJSON(conversation.startTime),
                       !.lastActivity = DateFromJSON(conversation.lastActivity)]

\* The whole callback, for a conversation that has its messages
ReviveConversation(conversation) ==
  [ReviveDates(conversation) EXCEPT !.messages =
     [i \in 1..Len(conversation.messages.array) |->
        [conversation.messages.array[i] EXCEPT
           !.timestamp = DateFromJSON(conversation.messages.array[i].timestamp)]]]

\* conversations.forEach of loadFromStorage: conversation.messages.forEach throws at
\* the first conversation without a messages array, which has its dates revived by
\* then; the conversations after it are left as parsed
ReviveConversations(convs) ==
  LET bad == {i \in 1..Len(convs) :
                \/ "messages" \notin DOMAIN convs[i][2]
                \/ ~IsArray(convs[i][2].messages)}
      stop == IF bad = {} THEN Len(convs) + 1
              ELSE CHOOSE i \in bad : \A j \in bad : i <= j
  IN  [i \in 1..Len(convs) |->
         IF i < stop THEN <<convs[i][1], ReviveConversation(convs[i][2])>>
         ELSE IF i = stop THEN <<convs[i][1], ReviveDates(convs[i][2])>>
         ELSE convs[i]]

\* loadFromStorage on a manager whose fields are as initialised: getItem throws when
\* readOk is false; every throw inside the try ends the load where it stands
LoadFromStorage(stored, readOk) ==
  IF ~readOk \/ stored.kind # "text" THEN EmptyManager
  ELSE
    LET data == stored.json
        mems == OrEmptyArray(data, "memories")
        convs == OrEmptyArray(data, "conversations")
    IN  IF ~IsArray(mems) THEN EmptyManager
        ELSE IF ~IsArray(convs)
        THEN [EmptyManager EXCEPT !.memories = NewMap(mems.array)]
        ELSE
          [memories |-> [i \in 1..Len(NewMap(mems.array)) |->
                           <<NewMap(mems.array)[i][1], ReviveEntry(NewMap(mems.array)[i][2])>>],
           conversations |-> ReviveConversations(NewMap(convs.array)),
           currentSessionId |-> IF "currentSessionId" \in DOMAIN data
                                THEN data.currentSessionId ELSE Undefined]

(***************************************************************************)
(* The state machine                                                        *)
(***************************************************************************)
VARIABLES
  memories,          \* this.memories
  conversations,     \* this.conversations
  currentSessionId,  \* this.currentSessionId
  storage,           \* localStorage's item 'nelson-gpt-memory'
  storageWorks,      \* whether localStorage's getItem and setItem succeed now: they
                     \* throw while its quota is exceeded or its use is denied
  now,               \* Date.now(), in days
  randomDraws,       \* the calls of Math.random() made so far
  turn,              \* where the chat turn of handleSendMessage is, and its message
  rateLimitMap,      \* the backend's rateLimitMap
  workerNow,         \* Date.now() of the backend, in milliseconds
  response,          \* what the backend's fetch answered last, and to which request
  admitted,          \* for each client, when the first request of its window was
                     \* admitted and how many were admitted in the window since
  pending,           \* the addMessage calls suspended at an await, in the order
                     \* their continuations are queued
  detached,          \* conversation objects a suspended call still holds after
                     \* clear() removed them from this.conversations
  last,              \* the last operation step: what ran and what it returned
  overlapped         \* whether an operation was ever called while an addMessage
                     \* call was suspended

vars == <<memories, conversations, currentSessionId, storage, storageWorks, now,
          randomDraws, turn, rateLimitMap, workerNow, response, admitted, pending,
          detached, last, overlapped>>

\* The state of the backend
worker == <<rateLimitMap, workerNow, response, admitted>>

\* No request was answered yet
NoResponse == [status |-> 0]

\* The bounds of the model: the ids a run draws (one for each session and each
\* entry), the messages the store holds at a time, and the messages and the
\* sessions of the long conversations
MaxDraws == 3

MaxMessages == 2

LongMessages == 21

LongSessions == 2

\* The inputs of the model: the messages, as <<role, content>>
Messages ==
  { <<"user", <<"n","e","v","e","r"," ","a"," ","c","a","s","e">>>>, <<"assistant", <<"T","r","e","a","t","m","e","n","t">>>>, <<"user", <<"h","i">>>> }

Queries == {<<>>, <<"C","a","s","e">>, <<"n","e","v","e","r"," ","t","r","e","a","t","m","e","n","t">>}

Limits == {0, 1, 10}

\* The readings of the clock, in days
ClockReadings == {0, 1, 40}

\* The k-th message of the long conversations, as <<role, content>>: the user and
\* the assistant take turns
Script(k) ==
  <<IF k % 2 = 1 THEN "user" ELSE "assistant",
    IF k <= 10 THEN <<"F","e","v","e","r"," ","c","a","s","e">> ELSE IF k <= 20 THEN <<"r","a","s","h"," ","a","n","d"," ","p","a","i","n">> ELSE <<"c","o","u","g","h">>>>

\* The manager's three fields as one value
Manager ==
  [memories |-> memories, conversations |-> conversations,
   currentSessionId |-> currentSessionId]

\* !this.currentSessionId
NoCurrentSession(m) == m.currentSessionId \in {Null, Undefined}

\* startSession with saveToStorage() called before this.currentSessionId is assigned
StartSessionBodySavesFirst(m, stored, t, r, writeOk) ==
  LET sessionId == SessionId(t, r)
      conversation == [sessionId |-> sessionId, messages |-> <<>>, summary |-> <<>>,
                       keyTopics |-> <<>>, startTime |-> NewDate(t),
                       lastActivity |-> NewDate(t)]
      before == [m EXCEPT !.conversations = MapSet(m.conversations, sessionId, conversation)]
      saved == SaveToStorage(before, stored, writeOk)
  IN  [manager |-> [before EXCEPT !.currentSessionId = sessionId],
       stored |-> saved.stored, threw |-> saved.threw, ret |-> sessionId]

\* startSession with this.conversations = new Map([[sessionId, conversation]]) in
\* place of this.conversations.set(sessionId, conversation)
StartSessionBodyReplacing(m, stored, t, r, writeOk) ==
  LET sessionId == SessionId(t, r)
      conversation == [sessionId |-> sessionId, messages |-> <<>>, summary |-> <<>>,
                       keyTopics |-> <<>>, startTime |-> NewDate(t),
                       lastActivity |-> NewDate(t)]
      after == [m EXCEPT !.currentSessionId = sessionId,
                         !.conversations = MapSet(<<>>, sessionId, conversation)]
      saved == SaveToStorage(after, stored, writeOk)
  IN  [manager |-> after, stored |-> saved.stored, threw |-> saved.threw,
       ret |-> sessionId]

\* The body of startSession at clock reading t after r draws: the manager, the
\* stored item, whether it threw, and the id it returns
StartSessionBody(m, stored, t, r, writeOk) ==
  LET sessionId == SessionId(t, r)
      conversation == [sessionId |-> sessionId, messages |-> <<>>, summary |-> <<>>,
                       keyTopics |-> <<>>, startTime |-> NewDate(t),
                       lastActivity |-> NewDate(t)]
      after == [m EXCEPT !.currentSessionId = sessionId,
                         !.conversations = MapSet(m.conversations, sessionId, conversation)]
      saved == SaveToStorage(after, stored, writeOk)
  IN  [manager |-> after, stored |-> saved.stored, threw |-> saved.threw,
       ret |-> sessionId]

\* clearMemories without this.conversations.clear()
ClearMemoriesBodyKeepsSessions(m, stored, writeOk) ==
  LET after == [m EXCEPT !.memories = <<>>, !.currentSessionId = Null]
      saved == SaveToStorage(after, stored, writeOk)
  IN  [manager |-> after, stored |-> saved.stored, threw |-> saved.threw]

\* clearMemories without this.currentSessionId = null
ClearMemoriesBodyKeepsCurrent(m, stored, writeOk) ==
  LET after == [m EXCEPT !.memories = <<>>, !.conversations = <<>>]
      saved == SaveToStorage(after, stored, writeOk)
  IN  [manager |-> after, stored |-> saved.stored, threw |-> saved.threw]

\* The body of clearMemories
ClearMemoriesBody(m, stored, writeOk) ==
  LET after == [memories |-> <<>>, conversations |-> <<>>, currentSessionId |-> Null]
      saved == SaveToStorage(after, stored, writeOk)
  IN  [manager |-> after, stored |-> saved.stored, threw |-> saved.threw]

\* this.memories = new Map(entries.map(memory => [memory.id, memory])) in place of
\* this.memories.set(memory.id, memory) for each
SetAllFresh(map, entries) ==
  [i \in 1..Len(entries) |-> <<entries[i].id, entries[i]>>]

\* this.memories.set(memory.id, memory) for each extracted entry
RECURSIVE SetAll(_, _)
SetAll(map, entries) ==
  IF entries = <<>> THEN map
  ELSE SetAll(MapSet(map, Head(entries).id, Head(entries)), Tail(entries))

\* Only the first id: memories.slice(0, 1).map(m => m.id)
IdsOfFirst(entries) == [i \in 1..(IF entries = <<>> THEN 0 ELSE 1) |-> entries[i].id]

\* memories.map(m => m.id)
Ids(entries) == [i \in 1..Len(entries) |-> entries[i].id]

\* What addMessage holds across its awaits
Call(role, content, sessionId, extracted, implicit) ==
  [role |-> role, content |-> content, conversation |-> sessionId,
   memories |-> extracted, implicit |-> implicit, pc |-> "extracted"]

\* for (const memory of extractedMemories) this.memories.set(memory.id, memory),
\* and the call suspended at the await
Suspended(m, stored, r, call) ==
  [manager |-> [m EXCEPT !.memories = SetAll(m.memories, call.memories)],
   stored |-> stored, draws |-> r + Len(call.memories), result |-> "suspended",
   call |-> call]

\* addMessage after its startSession, if it called one with outcome b: the lookup of
\* the conversation and the whole of extractMemoriesFromContent, which has no await
\* of its own.  result is "threw" (startSession threw), "dropped" (no conversation:
\* return []) or "suspended" (at the first await, as `call`)
AddMessageLookup(b, implicit, t, r, role, content) ==
  IF b.threw
  THEN [manager |-> b.manager, stored |-> b.stored, draws |-> r, result |-> "threw",
        call |-> Call(role, content, b.manager.currentSessionId, <<>>, implicit)]
  ELSE IF ~MapHas(b.manager.conversations, b.manager.currentSessionId)
  THEN [manager |-> b.manager, stored |-> b.stored, draws |-> r, result |-> "dropped",
        call |-> Call(role, content, b.manager.currentSessionId, <<>>, implicit)]
  ELSE Suspended(b.manager, b.stored, r,
                 Call(role, content, b.manager.currentSessionId,
                      ExtractMemoriesFromContent(content, role, t, r), implicit))

\* addMessage up to its first await
AddMessageCallBody(m, stored, t, r, role, content, writeOk) ==
  AddMessageLookup(IF NoCurrentSession(m)
                   THEN StartSessionBody(m, stored, t, r, writeOk)
                   ELSE [manager |-> m, stored |-> stored, threw |-> FALSE],
                   NoCurrentSession(m), t,
                   IF NoCurrentSession(m) THEN r + 1 ELSE r, role, content)

\* The conversation object a suspended call holds
Held(call) ==
  IF MapHas(conversations, call.conversation)
  THEN MapGet(conversations, call.conversation)
  ELSE detached[call.conversation]

\* The detached objects the calls in `calls` still hold
StillHeld(objs, calls) ==
  [sid \in {s \in DOMAIN objs : \E i \in 1..Len(calls) : calls[i].conversation = s}
     |-> objs[sid]]

\* conversation.messages.unshift({...}) in place of push
PushMessageFirst(conversation, call, t) ==
  [conversation EXCEPT
     !.messages = <<[role |-> call.role, content |-> call.content,
                     timestamp |-> NewDate(t), memories |-> Ids(call.memories)]>> \o @,
     !.lastActivity = NewDate(t)]

\* conversation.messages.push({...}) without conversation.lastActivity = new Date()
PushMessageOnly(conversation, call, t) ==
  [conversation EXCEPT
     !.messages = Append(@, [role |-> call.role, content |-> call.content,
                             timestamp |-> NewDate(t), memories |-> Ids(call.memories)])]

\* conversation.messages.push({...}); conversation.lastActivity = new Date()
PushMessage(conversation, call, t) ==
  [conversation EXCEPT
     !.messages = Append(@, [role |-> call.role, content |-> call.content,
                             timestamp |-> NewDate(t), memories |-> Ids(call.memories)]),
     !.lastActivity = NewDate(t)]

\* conversation.messages.length >= 10
SummaryDueFromTenth(conversation) == Len(conversation.messages) >= 10

\* conversation.messages.length % 10 === 0
SummaryDue(conversation) == Len(conversation.messages) % 10 = 0

\* No chat turn is under way: isLoading is false
Idle == [pc |-> "idle"]

\* The state after construction with nothing stored
Init ==
  /\ storage = NoItem
  /\ storageWorks = TRUE
  /\ \E loaded \in {LoadFromStorage(NoItem, TRUE)} :
       /\ memories = loaded.memories
       /\ conversations = loaded.conversations
       /\ currentSessionId = loaded.currentSessionId
  /\ now = 0
  /\ randomDraws = 0
  /\ pending = <<>>
  /\ detached = StillHeld(<<>>, <<>>)
  /\ last = [op |-> "constructor", step |-> "call", outcome |-> "returned"]
  /\ overlapped = FALSE
  /\ turn = Idle
  /\ rateLimitMap = <<>>
  /\ workerNow = 0
  /\ response = NoResponse
  /\ admitted = <<>>

\* startSession()
StartSession(writeOk) ==
  \E b \in {StartSessionBody(Manager, storage, now, randomDraws, writeOk)} :
      /\ memories' = b.manager.memories
      /\ conversations' = b.manager.conversations
      /\ currentSessionId' = b.manager.currentSessionId
      /\ storage' = b.stored
      /\ randomDraws' = randomDraws + 1
      /\ last' = [op |-> "startSession", step |-> "call",
                  outcome |-> IF b.threw THEN "threw" ELSE "returned",
                  ret |-> b.ret, wrote |-> writeOk]
      /\ overlapped' = (overlapped \/ pending # <<>>)
      /\ UNCHANGED <<storageWorks, now, pending, detached>>

\* addMessage(role, content), from the call to its first await
AddMessageCall(role, content, writeOk) ==
  \E b \in {AddMessageCallBody(Manager, storage, now, randomDraws, role, content,
                                writeOk)} :
      /\ memories' = b.manager.memories
      /\ conversations' = b.manager.conversations
      /\ currentSessionId' = b.manager.currentSessionId
      /\ storage' = b.stored
      /\ randomDraws' = b.draws
      /\ pending' = IF b.result = "suspended" THEN Append(pending, b.call) ELSE pending
      /\ last' = [op |-> "addMessage", step |-> "call",
                  outcome |-> CASE b.result = "suspended" -> "pending"
                                [] b.result = "dropped" -> "returned"
                                [] OTHER -> "threw",
                  call |-> b.call, ret |-> <<>>,
                  wrote |-> (b.call.implicit /\ writeOk)]
      /\ overlapped' = (overlapped \/ pending # <<>>)
      /\ UNCHANGED <<storageWorks, now, detached>>

\* The conversation object `sid` replaced by `conversation`, where it lives
PutHeld(sid, conversation) ==
  IF MapHas(conversations, sid)
  THEN /\ conversations' = MapSet(conversations, sid, conversation)
       /\ detached' = StillHeld(detached, Tail(pending))
  ELSE /\ conversations' = conversations
       /\ detached' = StillHeld([detached EXCEPT ![sid] = conversation], Tail(pending))

\* What a returning addMessage leaves in `last`
Returned(step, call, threw, writeOk) ==
  [op |-> "addMessage", step |-> step,
   outcome |-> IF threw THEN "threw" ELSE "returned",
   call |-> call, ret |-> Ids(call.memories), wrote |-> writeOk]

\* addMessage resumed after `await this.extractMemoriesFromContent(...)`: the push,
\* lastActivity, and either the summary (then the second await) or the save and
\* the return
AddMessageResume(writeOk) ==
  /\ pending # <<>>
  /\ Head(pending).pc = "extracted"
  /\ \E call \in {Head(pending)} :
     \E pushed \in {PushMessage(Held(call), call, now)} :
       IF SummaryDue(pushed)
       THEN /\ PutHeld(call.conversation, UpdateConversationSummary(pushed))
            /\ pending' = Append(Tail(pending), [call EXCEPT !.pc = "summarized"])
            /\ storage' = storage
            /\ last' = [op |-> "addMessage", step |-> "resume", outcome |-> "pending",
                        call |-> call, ret |-> <<>>, wrote |-> FALSE]
       ELSE /\ PutHeld(call.conversation, pushed)
            /\ pending' = Tail(pending)
            /\ \E saved \in {SaveToStorage(
                               [Manager EXCEPT !.conversations = conversations'],
                               storage, writeOk)} :
                 /\ storage' = saved.stored
                 /\ last' = Returned("resume", call, saved.threw, writeOk)
  /\ UNCHANGED <<memories, currentSessionId, storageWorks, now, randomDraws, overlapped>>

\* addMessage resumed after `await this.updateConversationSummary(...)`: the save
\* and the return
AddMessageFinish(writeOk) ==
  /\ pending # <<>>
  /\ Head(pending).pc = "summarized"
  /\ \E saved \in {SaveToStorage(Manager, storage, writeOk)} :
       /\ storage' = saved.stored
       /\ last' = Returned("finish", Head(pending), saved.threw, writeOk)
  /\ pending' = Tail(pending)
  /\ detached' = StillHeld(detached, Tail(pending))
  /\ UNCHANGED <<memories, conversations, currentSessionId, storageWorks, now,
                 randomDraws, overlapped>>

\* The contents that are no string: null, undefined and a number
Malformed == {Null, Undefined, [number |-> 42]}

\* addMessage(role, content) with a content that is no string, from the call to
\* its first await: after the startSession, if it calls one, and the lookup,
\* extractMemoriesFromContent throws a TypeError at content.toLowerCase(), before
\* it makes an entry; it is async, so the throw is a rejected promise, which the
\* call awaits
AddMessageCallMalformed(role, content, writeOk) ==
  \E b \in {IF NoCurrentSession(Manager)
             THEN StartSessionBody(Manager, storage, now, randomDraws, writeOk)
             ELSE [manager |-> Manager, stored |-> storage, threw |-> FALSE]} :
  \E call \in {[Call(role, content, b.manager.currentSessionId, <<>>,
                      NoCurrentSession(Manager)) EXCEPT !.pc = "rejected"]} :
      /\ memories' = b.manager.memories
      /\ conversations' = b.manager.conversations
      /\ currentSessionId' = b.manager.currentSessionId
      /\ storage' = b.stored
      /\ randomDraws' = IF NoCurrentSession(Manager) THEN randomDraws + 1 ELSE randomDraws
      /\ pending' = IF MapHas(b.manager.conversations, b.manager.currentSessionId)
                    THEN Append(pending, call) ELSE pending
      /\ last' = [op |-> "addMessage", step |-> "call",
                  outcome |-> IF b.threw THEN "threw"
                              ELSE IF MapHas(b.manager.conversations,
                                             b.manager.currentSessionId)
                              THEN "pending" ELSE "returned",
                  call |-> call, ret |-> <<>>,
                  wrote |-> (call.implicit /\ writeOk)]
      /\ overlapped' = (overlapped \/ pending # <<>>)
      /\ UNCHANGED <<storageWorks, now, detached>>

\* addMessage resumed after `await this.extractMemoriesFromContent(...)` with the
\* rejection of the awaited promise: the await throws, nothing catches it, and the
\* promise of addMessage is rejected; no message is pushed and nothing is saved
AddMessageReject ==
  /\ pending # <<>>
  /\ Head(pending).pc = "rejected"
  /\ pending' = Tail(pending)
  /\ detached' = StillHeld(detached, Tail(pending))
  /\ last' = Returned("resume", Head(pending), TRUE, FALSE)
  /\ UNCHANGED <<memories, conversations, currentSessionId, storage, storageWorks, now,
                 randomDraws, overlapped>>

\* clearMemories()
ClearMemories(writeOk) ==
  \E b \in {ClearMemoriesBody(Manager, storage, writeOk)} :
      /\ memories' = b.manager.memories
      /\ conversations' = b.manager.conversations
      /\ currentSessionId' = b.manager.currentSessionId
      /\ storage' = b.stored
      /\ detached' = [sid \in {pending[i].conversation : i \in 1..Len(pending)}
                         |-> Held([conversation |-> sid])]
      /\ last' = [op |-> "clearMemories", step |-> "call",
                  outcome |-> IF b.threw THEN "threw" ELSE "returned",
                  wrote |-> writeOk]
      /\ overlapped' = (overlapped \/ pending # <<>>)
      /\ UNCHANGED <<storageWorks, now, randomDraws, pending>>

\* The limit of searchMemories(query)
DefaultLimit == 10

\* searchMemories(query, limit)
SearchMemoriesCall(query, limit) ==
  /\ last' = [op |-> "searchMemories", step |-> "call", outcome |-> "returned",
              query |-> query, limit |-> limit, at |-> now,
              ret |-> SearchMemories(MapValues(memories), query, limit, now)]
  /\ overlapped' = (overlapped \/ pending # <<>>)
  /\ UNCHANGED <<memories, conversations, currentSessionId, storage, storageWorks, now,
                 randomDraws, pending, detached>>

\* The limit getRelevantMemories passes to searchMemories
RelevantLimit == 5

\* memories.map(m => m.content)
ContentsOf(entries) == [i \in 1..Len(entries) |-> entries[i].content]

\* getRelevantMemories with the summary of the first session of the store in place
\* of the current one's
GetRelevantMemoriesOfFirst(m, query, t) ==
  IF m.conversations # <<>> /\ m.conversations[1][2].summary # <<>>
  THEN <<m.conversations[1][2].summary>>
         \o ContentsOf(SearchMemories(MapValues(m.memories), query, RelevantLimit, t))
  ELSE ContentsOf(SearchMemories(MapValues(m.memories), query, RelevantLimit, t))

\* getRelevantMemories(query) at clock reading t (currentContext is not read)
GetRelevantMemories(m, query, t) ==
  IF /\ ~NoCurrentSession(m)
     /\ MapHas(m.conversations, m.currentSessionId)
     /\ MapGet(m.conversations, m.currentSessionId).summary # <<>>
  THEN <<MapGet(m.conversations, m.currentSessionId).summary>>
         \o ContentsOf(SearchMemories(MapValues(m.memories), query, RelevantLimit, t))
  ELSE ContentsOf(SearchMemories(MapValues(m.memories), query, RelevantLimit, t))

\* getRelevantMemories(query)
GetRelevantMemoriesCall(query) ==
  /\ last' = [op |-> "getRelevantMemories", step |-> "call", outcome |-> "returned",
              query |-> query, at |-> now,
              ret |-> GetRelevantMemories(Manager, query, now)]
  /\ overlapped' = (overlapped \/ pending # <<>>)
  /\ UNCHANGED <<memories, conversations, currentSessionId, storage, storageWorks, now,
                 randomDraws, pending, detached>>

\* getMemoryStats()
GetMemoryStatsCall ==
  /\ last' = [op |-> "getMemoryStats", step |-> "call", outcome |-> "returned",
              ret |-> GetMemoryStats(MapValues(memories), MapValues(conversations))]
  /\ overlapped' = (overlapped \/ pending # <<>>)
  /\ UNCHANGED <<memories, conversations, currentSessionId, storage, storageWorks, now,
                 randomDraws, pending, detached>>

\* .sort((a, b) => b.lastActivity.getTime() - a.lastActivity.getTime()): descending
\* and stable
RECURSIVE InsertByActivity(_, _)
InsertByActivity(sorted, conversation) ==
  IF sorted = <<>> THEN <<conversation>>
  ELSE IF GetTime(conversation.lastActivity) - GetTime(Head(sorted).lastActivity) <= 0
       THEN <<Head(sorted)>> \o InsertByActivity(Tail(sorted), conversation)
       ELSE <<conversation>> \o sorted

RECURSIVE SortByActivity(_)
SortByActivity(items) ==
  IF items = <<>> THEN <<>>
  ELSE InsertByActivity(SortByActivity(SubSeq(items, 1, Len(items) - 1)),
                        items[Len(items)])

\* getConversationHistory without its .sort(...)
GetConversationHistoryUnsorted(convs) == MapValues(convs)

\* getConversationHistory(): Array.from(this.conversations.values()), a new array of
\* the same session objects, sorted
GetConversationHistory(convs) == SortByActivity(MapValues(convs))

\* getConversationHistory()
GetConversationHistoryCall ==
  /\ last' = [op |-> "getConversationHistory", step |-> "call", outcome |-> "returned",
              ret |-> GetConversationHistory(conversations)]
  /\ overlapped' = (overlapped \/ pending # <<>>)
  /\ UNCHANGED <<memories, conversations, currentSessionId, storage, storageWorks, now,
                 randomDraws, pending, detached>>

\* The clock moves on
Tick(reading) ==
  /\ reading > now
  /\ now' = reading
  /\ UNCHANGED <<memories, conversations, currentSessionId, storage, storageWorks,
                 randomDraws, pending, detached, last, overlapped>>

\* localStorage starts or stops throwing
StorageFlips ==
  /\ storageWorks' = ~storageWorks
  /\ UNCHANGED <<memories, conversations, currentSessionId, storage, now, randomDraws,
                 pending, detached, last, overlapped>>

\* constructor(), at a page load: a new MemoryManager, its fields as initialised,
\* runs loadFromStorage.  A page goes away between tasks of the event loop, when no
\* continuation is queued.
Construct(readOk) ==
  /\ pending = <<>>
  /\ last.op # "constructor"
  /\ \E loaded \in {LoadFromStorage(storage, readOk)} :
       /\ memories' = loaded.memories
       /\ conversations' = loaded.conversations
       /\ currentSessionId' = loaded.currentSessionId
  /\ detached' = StillHeld(<<>>, <<>>)
  /\ last' = [op |-> "constructor", step |-> "call", outcome |-> "returned",
              read |-> readOk]
  /\ UNCHANGED <<storage, storageWorks, now, randomDraws, pending, overlapped>>

\* The messages the store holds and the suspended calls are about to add
MessagesDue ==
  Len(pending)
  + Cardinality({<<i, k>> \in (1..Len(conversations)) \X (1..MaxMessages) :
                   k <= Len(conversations[i][2].messages)})

\* Short conversations, a storage that may throw, page loads, and every interleaving
\* of the operations.  No conversation reaches ten messages, so no call reaches the
\* second await.
Next ==
  \/ randomDraws < MaxDraws /\ StartSession(storageWorks) /\ UNCHANGED <<turn, worker>>
  \/ /\ MessagesDue < MaxMessages
     /\ \E message \in Messages :
          /\ AddMessageCall(message[1], message[2], storageWorks)
          /\ randomDraws' <= MaxDraws
     /\ UNCHANGED <<turn, worker>>
  \/ AddMessageResume(storageWorks) /\ UNCHANGED <<turn, worker>>
  \/ ClearMemories(storageWorks) /\ UNCHANGED <<turn, worker>>
  \/ StorageFlips /\ UNCHANGED <<turn, worker>>
  \/ Construct(storageWorks) /\ UNCHANGED <<turn, worker>>

Spec == Init /\ [][Next]_vars

(***************************************************************************)
(* Other runs of the same operations                                        *)
(***************************************************************************)
\* Entries of different ages: messages added one call at a time while the clock
\* moves on, and the two read operations
NextSearch ==
  \/ /\ pending = <<>>
     /\ MessagesDue < MaxMessages
     /\ \E message \in Messages :
          /\ AddMessageCall(message[1], message[2], TRUE)
          /\ randomDraws' <= MaxDraws
     /\ UNCHANGED <<turn, worker>>
  \/ AddMessageResume(TRUE) /\ UNCHANGED <<turn, worker>>
  \/ \E reading \in ClockReadings : Tick(reading) /\ UNCHANGED <<turn, worker>>
  \/ \E query \in Queries, limit \in Limits : SearchMemoriesCall(query, limit) /\ UNCHANGED <<turn, worker>>
  \/ GetMemoryStatsCall /\ UNCHANGED <<turn, worker>>

SpecSearch == Init /\ [][NextSearch]_vars

\* The messages of the conversation `sid`, or none
MessagesOf(sid) ==
  IF MapHas(conversations, sid) THEN MapGet(conversations, sid).messages ELSE <<>>

\* The messages the sessions of the store hold
MessagesStored ==
  Cardinality({<<i, k>> \in (1..Len(conversations)) \X (1..LongMessages) :
                 k <= Len(conversations[i][2].messages)})

\* Long conversations: the messages of Script, one call at a time, each in the
\* session that is current, which a new one may replace
NextLong ==
  \/ pending = <<>> /\ Len(conversations) < LongSessions /\ StartSession(TRUE) /\ UNCHANGED <<turn, worker>>
  \/ /\ pending = <<>>
     /\ MessagesStored < LongMessages
     /\ AddMessageCall(Script(MessagesStored + 1)[1], Script(MessagesStored + 1)[2], TRUE)
     /\ UNCHANGED <<turn, worker>>
  \/ AddMessageResume(TRUE) /\ UNCHANGED <<turn, worker>>
  \/ AddMessageFinish(TRUE) /\ UNCHANGED <<turn, worker>>
  \/ pending = <<>> /\ \E query \in Queries : GetRelevantMemoriesCall(query) /\ UNCHANGED <<turn, worker>>

SpecLong == Init /\ [][NextLong]_vars

\* Sessions started and messages added while the clock moves on, in every
\* interleaving, and the history read
NextHistory ==
  \/ randomDraws < MaxDraws /\ StartSession(TRUE) /\ UNCHANGED <<turn, worker>>
  \/ /\ MessagesDue < MaxMessages
     /\ \E message \in Messages :
          /\ AddMessageCall(message[1], message[2], TRUE)
          /\ randomDraws' <= MaxDraws
     /\ UNCHANGED <<turn, worker>>
  \/ AddMessageResume(TRUE) /\ UNCHANGED <<turn, worker>>
  \/ \E reading \in ClockReadings : Tick(reading) /\ UNCHANGED <<turn, worker>>
  \/ GetConversationHistoryCall /\ UNCHANGED <<turn, worker>>

SpecHistory == Init /\ [][NextHistory]_vars

\* The roles a caller may pass, and the strings, the empty one among them
AnyRoles == {"user", "assistant", "system"}

AnyContents == {<<>>, <<"h","i">>, <<"a"," ","c","a","s","e">>}

\* Messages of any role and any content, strings or not, added one call at a time
\* to the sessions started
NextMalformed ==
  \/ randomDraws < MaxDraws /\ pending = <<>> /\ StartSession(TRUE) /\ UNCHANGED <<turn, worker>>
  \/ /\ pending = <<>>
     /\ MessagesDue < MaxMessages
     /\ \E role \in AnyRoles, content \in AnyContents :
          /\ AddMessageCall(role, content, TRUE)
          /\ randomDraws' <= MaxDraws
     /\ UNCHANGED <<turn, worker>>
  \/ /\ pending = <<>>
     /\ \E role \in AnyRoles, content \in Malformed :
          /\ AddMessageCallMalformed(role, content, TRUE)
          /\ randomDraws' <= MaxDraws
     /\ UNCHANGED <<turn, worker>>
  \/ AddMessageResume(TRUE) /\ UNCHANGED <<turn, worker>>
  \/ AddMessageReject /\ UNCHANGED <<turn, worker>>

SpecMalformed == Init /\ [][NextMalformed]_vars

\* The k-th message of conversations that name a condition and then none, as
\* <<role, content>>
TopicScript(k) ==
  <<IF k % 2 = 1 THEN "user" ELSE "assistant",
    IF k <= 10 THEN <<"F","e","v","e","r"," ","a","n","d"," ","C","O","U","G","H">> ELSE <<"h","e","l","l","o">>>>

\* Long conversations whose late messages name no condition, one call at a time,
\* each in the session that is current, which a new one may replace
NextTopics ==
  \/ pending = <<>> /\ Len(conversations) < LongSessions /\ StartSession(TRUE) /\ UNCHANGED <<turn, worker>>
  \/ /\ pending = <<>>
     /\ MessagesStored < LongMessages
     /\ AddMessageCall(TopicScript(MessagesStored + 1)[1],
                       TopicScript(MessagesStored + 1)[2], TRUE)
     /\ UNCHANGED <<turn, worker>>
  \/ AddMessageResume(TRUE) /\ UNCHANGED <<turn, worker>>
  \/ AddMessageFinish(TRUE) /\ UNCHANGED <<turn, worker>>

SpecTopics == Init /\ [][NextTopics]_vars

\* Contents the assistant's medical_fact rule matches, with a keyword of each rule
\* of inferSpecialty, with keywords of two rules in either order, and with none
SpecialtyContents ==
  { <<"t","r","e","a","t","m","e","n","t",":"," ","H","e","a","r","t">>, <<"t","r","e","a","t","m","e","n","t",":"," ","c","a","r","d","i","a","c">>, <<"t","r","e","a","t","m","e","n","t",":"," ","b","r","a","i","n">>,
    <<"t","r","e","a","t","m","e","n","t",":"," ","N","E","U","R","O">>, <<"t","r","e","a","t","m","e","n","t",":"," ","c","a","n","c","e","r">>, <<"t","r","e","a","t","m","e","n","t",":"," ","t","u","m","o","r">>,
    <<"t","r","e","a","t","m","e","n","t",":"," ","d","i","a","b","e","t","e","s">>, <<"t","r","e","a","t","m","e","n","t",":"," ","h","o","r","m","o","n","e">>, <<"t","r","e","a","t","m","e","n","t",":"," ","s","t","o","m","a","c","h">>,
    <<"t","r","e","a","t","m","e","n","t",":"," ","i","n","t","e","s","t","i","n","e">>, <<"t","r","e","a","t","m","e","n","t",":"," ","l","u","n","g">>, <<"t","r","e","a","t","m","e","n","t",":"," ","r","e","s","p","i","r","a","t","o","r","y">>,
    <<"t","r","e","a","t","m","e","n","t",":"," ","k","i","d","n","e","y">>, <<"t","r","e","a","t","m","e","n","t",":"," ","r","e","n","a","l">>, <<"t","r","e","a","t","m","e","n","t",":"," ","i","n","f","e","c","t","i","o","n">>,
    <<"t","r","e","a","t","m","e","n","t",":"," ","b","a","c","t","e","r","i","a">>, <<"t","r","e","a","t","m","e","n","t",":"," ","e","m","e","r","g","e","n","c","y">>, <<"t","r","e","a","t","m","e","n","t",":"," ","u","r","g","e","n","t">>,
    <<"t","r","e","a","t","m","e","n","t",":"," ","h","e","a","r","t"," ","a","n","d"," ","b","r","a","i","n">>, <<"t","r","e","a","t","m","e","n","t",":"," ","b","r","a","i","n"," ","a","n","d"," ","h","e","a","r","t">>,
    <<"t","r","e","a","t","m","e","n","t",":"," ","u","r","g","e","n","t"," ","r","e","n","a","l"," ","t","u","m","o","r">>, <<"t","r","e","a","t","m","e","n","t",":"," ","r","e","s","t">> }

\* Messages of the assistant added one call at a time
NextSpecialty ==
  \/ /\ pending = <<>>
     /\ MessagesDue < MaxMessages
     /\ \E content \in SpecialtyContents : AddMessageCall("assistant", content, TRUE)
     /\ UNCHANGED <<turn, worker>>
  \/ AddMessageResume(TRUE) /\ UNCHANGED <<turn, worker>>

SpecSpecialty == Init /\ [][NextSpecialty]_vars

(***************************************************************************)
(* The chat turn of the interface                                           *)
(***************************************************************************)
\* What the user sends and what the stream of the model adds up to
Sent == { <<"a"," ","c","a","s","e">>, <<"h","i">> }

Replies == { <<"T","r","e","a","t","m","e","n","t">>, <<"o","k">> }

\* handleSendMessage with inputValue.trim() = content, up to its first await: the
\* guard on the input and isLoading, setIsLoading(true), and the call of
\* memoryManager.addMessage('user', content)
HandleSendMessage(content) ==
  /\ turn.pc = "idle"
  /\ content # <<>>
  /\ AddMessageCall("user", content, TRUE)
  /\ turn' = [pc |-> "user", call |-> last'.call]

\* handleSendMessage after classifyMedicalQuery and searchNelsonContent resolved,
\* which it awaits after addMessage: getRelevantMemories(userMessage.content), the
\* context built, and the stream of the model begun
HandleContext ==
  /\ turn.pc = "user"
  /\ pending = <<>>
  /\ GetRelevantMemoriesCall(turn.call.content)
  /\ turn' = [pc |-> "stream", call |-> turn.call]

\* handleSendMessage after the stream ended without error, with `reply` the chunks
\* put together: the call of memoryManager.addMessage('assistant', reply)
HandleReply(reply) ==
  /\ turn.pc = "stream"
  /\ AddMessageCall("assistant", reply, TRUE)
  /\ turn' = [pc |-> "assistant", call |-> turn.call]

\* handleSendMessage after the assistant's addMessage resolved: updateMemoryStats()
\* and the finally block
HandleDone ==
  /\ turn.pc = "assistant"
  /\ pending = <<>>
  /\ GetMemoryStatsCall
  /\ turn' = Idle

\* classifyMedicalQuery, searchNelsonContent or the stream threw: the catch block,
\* which adds an error message to the messages shown and nothing to the memory,
\* and the finally block
HandleCatch ==
  /\ \/ turn.pc = "user" /\ pending = <<>>
     \/ turn.pc = "stream"
  /\ turn' = Idle
  /\ last' = [op |-> "handleSendMessage", step |-> "catch", outcome |-> "returned",
              call |-> turn.call]
  /\ UNCHANGED <<memories, conversations, currentSessionId, storage, storageWorks, now,
                 randomDraws, pending, detached, overlapped>>

\* The button New Chat: clearConversation(), which calls memoryManager.startSession()
NewChat ==
  /\ StartSession(TRUE)
  /\ UNCHANGED turn

\* The button Clear All Memory: memoryManager.clearMemories(), updateMemoryStats()
\* and clearConversation(), which calls memoryManager.startSession()
ClearAllMemory ==
  \E c \in {ClearMemoriesBody(Manager, storage, TRUE)} :
  \E b \in {StartSessionBody(c.manager, c.stored, now, randomDraws, TRUE)} :
      /\ memories' = b.manager.memories
      /\ conversations' = b.manager.conversations
      /\ currentSessionId' = b.manager.currentSessionId
      /\ storage' = b.stored
      /\ randomDraws' = randomDraws + 1
      /\ detached' = [sid \in {pending[i].conversation : i \in 1..Len(pending)}
                         |-> Held([conversation |-> sid])]
      /\ last' = [op |-> "startSession", step |-> "call",
                  outcome |-> IF b.threw THEN "threw" ELSE "returned",
                  ret |-> b.ret, wrote |-> TRUE]
      /\ overlapped' = (overlapped \/ pending # <<>>)
      /\ UNCHANGED <<storageWorks, now, pending, turn>>

\* Chat turns one after the other, and the two buttons, which are enabled during a
\* turn too; a click is a task of its own, so it falls between the awaits of the
\* turn that wait for the network, never inside addMessage
NextTurn ==
  \/ /\ MessagesDue < MaxMessages
     /\ \E content \in Sent :
          /\ HandleSendMessage(content)
          /\ randomDraws' <= MaxDraws
     /\ UNCHANGED worker
  \/ AddMessageResume(TRUE) /\ UNCHANGED <<turn, worker>>
  \/ HandleContext /\ UNCHANGED worker
  \/ /\ MessagesDue < MaxMessages
     /\ \E reply \in Replies :
          /\ HandleReply(reply)
          /\ randomDraws' <= MaxDraws
     /\ UNCHANGED worker
  \/ HandleDone /\ UNCHANGED worker
  \/ HandleCatch /\ UNCHANGED worker
  \/ randomDraws < MaxDraws /\ pending = <<>> /\ NewChat /\ UNCHANGED worker
  \/ randomDraws < MaxDraws /\ pending = <<>> /\ ClearAllMemory /\ UNCHANGED worker

SpecTurn == Init /\ [][NextTurn]_vars

\* Queries of several words, which a space, a tab or a line break separates
ScoreQueries ==
  { <<"n","e","v","e","r"," ","t","r","e","a","t","m","e","n","t">>, <<"a"," ","c","a","s","e">>,
    <<"n","e","v","e","r">> \o <<"\t">> \o <<"c","a","s","e">>,
    <<"t","r","e","a","t","m","e","n","t">> \o <<"\n">> \o <<"n","e","v","e","r">> }

\* Entries searched for several words: messages added one call at a time while the
\* clock moves on, and searches
NextScore ==
  \/ /\ pending = <<>>
     /\ MessagesDue < MaxMessages
     /\ \E message \in Messages :
          /\ AddMessageCall(message[1], message[2], TRUE)
          /\ randomDraws' <= MaxDraws
     /\ UNCHANGED <<turn, worker>>
  \/ AddMessageResume(TRUE) /\ UNCHANGED <<turn, worker>>
  \/ \E reading \in ClockReadings : Tick(reading) /\ UNCHANGED <<turn, worker>>
  \/ pending = <<>> /\ \E query \in ScoreQueries : SearchMemoriesCall(query, DefaultLimit) /\ UNCHANGED <<turn, worker>>

SpecScore == Init /\ [][NextScore]_vars

\* Contents for the rules of the extractor: each keyword of each rule in some case
\* of letters, two and three rules' keywords together, and contents with none
ExtractContents ==
  { <<"D","i","a","g","n","o","s","i","s">>, <<"t","r","e","a","t","m","e","n","t">>, <<"M","E","D","I","C","A","T","I","O","N">>, <<"I"," ","p","r","e","f","e","r">>, <<"A","l","w","a","y","s">>,
    <<"n","e","v","e","r">>, <<"P","a","t","i","e","n","t">>, <<"a"," ","c","a","s","e">>, <<"2"," ","Y","e","a","r"," ","O","l","d">>, <<"N","e","v","e","r"," ","a"," ","t","r","e","a","t","m","e","n","t"," ","c","a","s","e">>,
    <<"y","e","a","r"," "," ","o","l","d">>, <<"h","e","l","l","o">>, <<>> }

\* Messages of either role added one call at a time
NextExtract ==
  \/ /\ pending = <<>>
     /\ MessagesDue < MaxMessages
     /\ \E role \in {"user", "assistant"}, content \in ExtractContents :
          AddMessageCall(role, content, TRUE)
     /\ UNCHANGED <<turn, worker>>
  \/ AddMessageResume(TRUE) /\ UNCHANGED <<turn, worker>>

SpecExtract == Init /\ [][NextExtract]_vars

\* Messages of one content, which the user's has two entries extracted from and the
\* assistant's one, of another category
AgedMessages == { <<"user", <<"n","e","v","e","r"," ","a"," ","c","a","s","e">>>>, <<"assistant", <<"n","e","v","e","r"," ","a"," ","c","a","s","e">>>> }

\* The readings of the clock, in days, while entries age
AgeReadings == {1, 40, 41, 400}

\* Entries that age: messages added one call at a time, days and years apart, and
\* searches
NextAging ==
  \/ /\ pending = <<>>
     /\ MessagesDue < MaxMessages
     /\ \E message \in AgedMessages : AddMessageCall(message[1], message[2], TRUE)
     /\ UNCHANGED <<turn, worker>>
  \/ AddMessageResume(TRUE) /\ UNCHANGED <<turn, worker>>
  \/ \E reading \in AgeReadings : Tick(reading) /\ UNCHANGED <<turn, worker>>
  \/ pending = <<>> /\ \E query \in Queries : SearchMemoriesCall(query, DefaultLimit) /\ UNCHANGED <<turn, worker>>

SpecAging == Init /\ [][NextAging]_vars

(***************************************************************************)
(* Construction over whatever the stored item holds                         *)
(***************************************************************************)
\* A stored session with one message, as saveToStorage writes it
StoredSession(t, r) ==
  ConversationToJSON(
    PushMessage(StartSessionBody(EmptyManager, NoItem, t, r, TRUE).manager.conversations[1][2],
                Call("user", <<"a"," ","c","a","s","e">>, SessionId(t, r),
                     <<CaseContextEntry(<<"a"," ","c","a","s","e">>, t, r + 1)>>, FALSE),
                t))

\* A JSON value that is no array
NoArray == [number |-> 7]

\* obj without its property `field`
Without(obj, field) == [f \in DOMAIN obj \ {field} |-> obj[f]]

\* What the property `memories` of a stored item may hold
StoredMemories ==
  { [array |-> <<>>],
    [array |-> << <<MemoryId(0, 1), EntryToJSON(CaseContextEntry(<<"a"," ","c","a","s","e">>, 0, 1))>> >>],
    NoArray }

\* What the property `conversations` of a stored item may hold: sessions as written,
\* and sessions whose messages are missing or no array
StoredConversations ==
  { [array |-> <<>>],
    [array |-> << <<SessionId(0, 0), StoredSession(0, 0)>> >>],
    [array |-> << <<SessionId(0, 0), Without(StoredSession(0, 0), "messages")>> >>],
    [array |-> << <<SessionId(0, 0), [StoredSession(0, 0) EXCEPT !.messages = NoArray]>> >>],
    [array |-> << <<SessionId(0, 0), StoredSession(0, 0)>>,
                  <<SessionId(1, 2), Without(StoredSession(1, 2), "messages")>> >>],
    [array |-> << <<SessionId(1, 2), Without(StoredSession(1, 2), "messages")>>,
                  <<SessionId(0, 0), StoredSession(0, 0)>> >>],
    NoArray }

StoredSessionIds == {Null, SessionId(0, 0)}

\* The stored items: absent, no JSON, and the objects with any of the three
\* properties missing, ill-typed or as written
StoredItems ==
  {NoItem, NotJSON}
  \cup { Item([f \in present |->
                 CASE f = "memories" -> mems
                   [] f = "conversations" -> convs
                   [] OTHER -> sid]) :
           present \in SUBSET {"memories", "conversations", "currentSessionId"},
           mems \in StoredMemories, convs \in StoredConversations,
           sid \in StoredSessionIds }

\* A page about to load: the fields as their initialisers leave them
InitLoad ==
  /\ storage \in StoredItems
  /\ storageWorks \in BOOLEAN
  /\ memories = EmptyManager.memories
  /\ conversations = EmptyManager.conversations
  /\ currentSessionId = EmptyManager.currentSessionId
  /\ now = 1
  /\ randomDraws = 0
  /\ pending = <<>>
  /\ detached = StillHeld(<<>>, <<>>)
  /\ last = [op |-> "none", step |-> "call", outcome |-> "returned"]
  /\ overlapped = FALSE
  /\ turn = Idle
  /\ rateLimitMap = <<>>
  /\ workerNow = 0
  /\ response = NoResponse
  /\ admitted = <<>>

NextLoad == Construct(storageWorks) /\ UNCHANGED <<turn, worker>>

SpecLoad == InitLoad /\ [][NextLoad]_vars


\* Messages with entries to search by phrase: of one line, and of two lines
PhraseMessages ==
  { <<"user", <<"n","e","v","e","r"," ","a"," ","c","a","s","e">>>>, <<"assistant", <<"T","r","e","a","t","m","e","n","t">>>>,
    <<"user", <<"a"," ","c","a","s","e">> \o <<"\n">> \o <<"o","f">>>> }

\* The empty query, a phrase of short words, a word no content has, and short words
\* with a line break between two of them
PhraseQueries ==
  { <<>>, <<"r"," ","a">>, <<"f","e","v","e","r">>, <<"s","e">> \o <<"\n">> \o <<"o","f"," ","h","i">> }

\* Searches by phrase: messages added one call at a time while the clock moves on,
\* and searches for one entry and for ten
NextPhrase ==
  \/ /\ pending = <<>>
     /\ MessagesDue < MaxMessages
     /\ \E message \in PhraseMessages : AddMessageCall(message[1], message[2], TRUE)
     /\ UNCHANGED <<turn, worker>>
  \/ AddMessageResume(TRUE) /\ UNCHANGED <<turn, worker>>
  \/ \E reading \in ClockReadings : Tick(reading) /\ UNCHANGED <<turn, worker>>
  \/ /\ pending = <<>>
     /\ \E query \in PhraseQueries, limit \in {1, DefaultLimit} :
          SearchMemoriesCall(query, limit)
     /\ UNCHANGED <<turn, worker>>

SpecPhrase == Init /\ [][NextPhrase]_vars

(***************************************************************************)
(* The backend: fetch and its rate limiter                                  *)
(***************************************************************************)
\* The window of the rate limiter, in milliseconds: resetTime: now + 60000
WindowMs == 60000

\* The requests of a window: limit.count >= 30
RequestLimit == 30

\* isRateLimited with limit.count > 30 in place of limit.count >= 30
IsRateLimitedAbove(map, ip, t) ==
  IF ~ MapHas(map, ip) \/ t > MapGet(map, ip).resetTime
  THEN [limited |-> FALSE,
        map |-> MapSet(map, ip, [count |-> 1, resetTime |-> t + WindowMs])]
  ELSE IF MapGet(map, ip).count > RequestLimit
       THEN [limited |-> TRUE, map |-> map]
       ELSE [limited |-> FALSE,
             map |-> MapSet(map, ip, [MapGet(map, ip) EXCEPT !.count = @ + 1])]

\* isRateLimited(ip) when Date.now() is t: what it returns, and rateLimitMap after
IsRateLimited(map, ip, t) ==
  IF ~ MapHas(map, ip) \/ t > MapGet(map, ip).resetTime
  THEN [limited |-> FALSE,
        map |-> MapSet(map, ip, [count |-> 1, resetTime |-> t + WindowMs])]
  ELSE IF MapGet(map, ip).count >= RequestLimit
       THEN [limited |-> TRUE, map |-> map]
       ELSE [limited |-> FALSE,
             map |-> MapSet(map, ip, [MapGet(map, ip) EXCEPT !.count = @ + 1])]

\* request.headers.get('CF-Connecting-IP') || 'unknown': null and '' are falsy
ClientIP(header) ==
  IF header = Null \/ header = Str(<<>>) THEN <<"u","n","k","n","o","w","n">> ELSE header.string

\* The status of the routes modelled: the health check, and no route
Route(method, path) ==
  IF path = <<"/","a","p","i","/","h","e","a","l","t","h">> /\ method = "GET" THEN 200 ELSE 404

\* The window of the client after one more request of its was admitted at t: the
\* window is 60 s long from the first request admitted in it
Admit(windows, ip, t) ==
  IF MapHas(windows, ip) /\ t <= MapGet(windows, ip).first + WindowMs
  THEN MapSet(windows, ip, [MapGet(windows, ip) EXCEPT !.n = @ + 1])
  ELSE MapSet(windows, ip, [first |-> t, n |-> 1])

\* fetch(request): the preflight answer, the rate limiter, and the routes
Fetch(method, header, path) ==
  \E ip \in {ClientIP(header)} :
    IF method = "OPTIONS"
    THEN /\ response' = [method |-> method, clientIP |-> ip, status |-> 200]
         /\ UNCHANGED <<rateLimitMap, workerNow, admitted>>
    ELSE \E limit \in {IsRateLimited(rateLimitMap, ip, workerNow)} :
           /\ rateLimitMap' = limit.map
           /\ response' = [method |-> method, clientIP |-> ip,
                           status |-> IF limit.limited THEN 429
                                      ELSE Route(method, path)]
           /\ admitted' = IF limit.limited THEN admitted
                          ELSE Admit(admitted, ip, workerNow)
           /\ UNCHANGED workerNow

\* The clock of the backend moves on
WorkerTick(reading) ==
  /\ reading > workerNow
  /\ workerNow' = reading
  /\ UNCHANGED <<rateLimitMap, response, admitted>>

\* The readings of the backend's clock, in milliseconds: the start, the reset time
\* of a window opened at the start, and the times right after two reset times
WorkerReadings == {0, WindowMs, WindowMs + 1, 2 * WindowMs + 2}

\* The CF-Connecting-IP header of a request: an address, absent, or empty
Headers == { Str(<<"1",".","2",".","3",".","4">>), Null, Str(<<>>) }

\* The state of the browser's side
manager == <<memories, conversations, currentSessionId, storage, storageWorks, now,
             randomDraws, turn, pending, detached, last, overlapped>>

\* Requests to the backend while its clock moves on
NextWorker ==
  \/ /\ \E method \in {"OPTIONS", "GET"}, header \in Headers,
          path \in {<<"/","a","p","i","/","h","e","a","l","t","h">>, <<"/","a","p","i","/","n","o","n","e">>} : Fetch(method, header, path)
     /\ UNCHANGED manager
  \/ \E reading \in WorkerReadings : WorkerTick(reading) /\ UNCHANGED manager

SpecWorker == Init /\ [][NextWorker]_vars
(***************************************************************************)
(* Properties                                                               *)
(***************************************************************************)
\* The manager's fields after the step
ManagerNext ==
  [memories |-> memories', conversations |-> conversations',
   currentSessionId |-> currentSessionId']

\* Array.from(map.keys())
MapKeys(map) == {map[i][1] : i \in 1..Len(map)}

\* The places <<session, message, position>> where the id is listed in a message
\* record
Places(convs, id) ==
  UNION { UNION { { <<i, k, j>> : j \in {j \in 1..Len(convs[i][2].messages[k].memories) :
                                          convs[i][2].messages[k].memories[j] = id} } :
                  k \in 1..Len(convs[i][2].messages) } :
          i \in 1..Len(convs) }

\* The ids listed in the message records
ListedIds(convs) ==
  UNION { UNION { Range(convs[i][2].messages[k].memories) :
                  k \in 1..Len(convs[i][2].messages) } :
          i \in 1..Len(convs) }

\* Every entry is listed once, and what is listed is an entry
Linked(m) ==
  /\ \A id \in MapKeys(m.memories) : Cardinality(Places(m.conversations, id)) = 1
  /\ ListedIds(m.conversations) \subseteq MapKeys(m.memories)

\* The entry as a reader sees it: a property that is undefined reads like one that
\* is missing
Read(memory) == [memory EXCEPT !.metadata = DropUndefined(memory.metadata, "patient_age")]

\* The manager as a reader sees it
ReadAll(m) ==
  [m EXCEPT !.memories = [i \in 1..Len(m.memories) |->
                            <<m.memories[i][1], Read(m.memories[i][2])>>]]

\* The step is the part of addMessage up to its first await
IsCall == Len(pending') = Len(pending) + 1

\* The step is the part of addMessage after its first await
IsResume ==
  /\ pending # <<>>
  /\ Head(pending).pc = "extracted"
  /\ last'.op = "addMessage" /\ last'.step = "resume"
  /\ \/ pending' = Tail(pending)
     \/ pending' = Append(Tail(pending), [Head(pending) EXCEPT !.pc = "summarized"])

\* messages with one record appended for the call
AppendedFor(call, before, after) ==
  /\ Len(after) = Len(before) + 1
  /\ SubSeq(after, 1, Len(before)) = before
  /\ after[Len(after)].role = call.role
  /\ after[Len(after)].content = call.content
  /\ after[Len(after)].memories = Ids(call.memories)

\* C1, up to the await: when there is no current session one is created, empty, and
\* made current; otherwise the sessions stay as they are.  The entries the call adds
\* to the store are the ones it extracted, under new ids, and the call holds the
\* current session.
C1Call ==
  LET call == pending'[Len(pending')]
  IN  /\ IF NoCurrentSession(Manager)
         THEN /\ Len(conversations') = Len(conversations) + 1
              /\ SubSeq(conversations', 1, Len(conversations)) = conversations
              /\ currentSessionId' \notin MapKeys(conversations)
              /\ conversations'[Len(conversations')][1] = currentSessionId'
              /\ conversations'[Len(conversations')][2].messages = <<>>
         ELSE /\ conversations' = conversations
              /\ currentSessionId' = currentSessionId
      /\ call.conversation = currentSessionId'
      /\ MapKeys(memories) \cap Range(Ids(call.memories)) = {}
      /\ memories' = memories \o [i \in 1..Len(call.memories) |->
                                    <<call.memories[i].id, call.memories[i]>>]

\* C1, after the await: the session the call holds gets one record, at its end, with
\* the call's role and content and the ids of the entries the call added; nothing
\* else changes in the store; the list returned is the list of those ids; and the
\* session is still the current one unless another operation was called meanwhile.
C1Resume ==
  LET call == Head(pending)
      sid == Head(pending).conversation
  IN  /\ memories' = memories
      /\ currentSessionId' = currentSessionId
      /\ MapKeys(conversations') = MapKeys(conversations)
      /\ \A other \in MapKeys(conversations) \ {sid} :
           MapGet(conversations', other) = MapGet(conversations, other)
      /\ MapHas(conversations, sid) =>
           AppendedFor(call, MapGet(conversations, sid).messages,
                       MapGet(conversations', sid).messages)
      /\ last'.outcome = "returned" => last'.ret = Ids(call.memories)
      /\ ~overlapped => MapHas(conversations, sid) /\ sid = currentSessionId

\* C1: a completed addMessage(role, content) appends exactly one message record to
\* the end of the current session (the session that is current when addMessage
\* looks it up, at the call), first creating a session and making it current when
\* there is none; the record's id list is the list the call returns, and these are
\* the ids of the entries the call added to the store.
C1_AddMessageAppendsOneRecord ==
  [][(IsCall => C1Call) /\ (IsResume => C1Resume)]_vars

\* A call that extracted two entries into a session it created has completed
C1_Witness ==
  /\ last.op = "addMessage" /\ last.outcome = "returned" /\ last.step = "resume"
  /\ last.call.implicit
  /\ Len(last.ret) = 2
  /\ MapHas(conversations, last.call.conversation)
  /\ MapGet(conversations, last.call.conversation).messages # <<>>
  /\ currentSessionId = last.call.conversation

\* A mutating call has completed and its write succeeded
WroteLast ==
  /\ last.op \in {"startSession", "addMessage", "clearMemories"}
  /\ last.outcome = "returned"
  /\ last.wrote

\* C2: with the storage writes succeeding, whenever startSession, addMessage or
\* clearMemories has completed, the stored item is the encoding of the current
\* entries, sessions and current-session id, and decodes to them.
C2_StoredIsCurrent ==
  WroteLast =>
    /\ storage = Item(Stringify(Manager))
    /\ LoadFromStorage(storage, TRUE) = ReadAll(Manager)

\* An addMessage has completed and written a store with entries and a session
C2_Witness ==
  /\ WroteLast
  /\ last.op = "addMessage"
  /\ memories # <<>>
  /\ currentSessionId # Null

\* C5, for one step taken while localStorage throws: the operation returns, and
\* leaves in memory what it leaves when the write succeeds
C5Step ==
  /\ last'.outcome # "threw"
  /\ CASE last'.op = "startSession" ->
            ManagerNext = StartSessionBody(Manager, storage, now, randomDraws, TRUE).manager
       [] last'.op = "clearMemories" ->
            ManagerNext = ClearMemoriesBody(Manager, storage, TRUE).manager
       [] last'.op = "addMessage" /\ last'.step = "call" ->
            /\ ManagerNext = AddMessageCallBody(Manager, storage, now, randomDraws,
                                                last'.call.role, last'.call.content,
                                                TRUE).manager
            /\ last'.outcome = "pending"
       [] last'.op = "addMessage" /\ last'.step = "resume" ->
            /\ memories' = memories
            /\ currentSessionId' = currentSessionId
            /\ MapHas(conversations, Head(pending).conversation) =>
                 conversations' =
                   MapSet(conversations, Head(pending).conversation,
                          PushMessage(MapGet(conversations, Head(pending).conversation),
                                      Head(pending), now))
       [] last'.op = "constructor" -> ManagerNext = EmptyManager
       [] OTHER -> TRUE

\* C5: when the storage write or read throws during a Manager call, the call
\* returns normally, and the entries, the sessions and the current-session pointer
\* are what they are when the write succeeds.
C5_StorageFailureIsSwallowed ==
  [][(~storageWorks /\ last' # last) => C5Step]_vars

\* An addMessage has completed while localStorage threw: the store holds its
\* entries, the stored item does not
C5_Witness ==
  /\ ~storageWorks
  /\ last.op = "addMessage" /\ last.outcome = "returned" /\ ~last.wrote
  /\ memories # <<>>
  /\ storage # Item(Stringify(Manager))

\* What getMemoryStats returns for an empty store
NoStats ==
  GetMemoryStats(<<>>, <<>>)

\* clearMemories has left the store empty
Cleared ==
  /\ memories = <<>>
  /\ conversations = <<>>
  /\ currentSessionId = Null
  /\ GetMemoryStats(MapValues(memories), MapValues(conversations)) = NoStats
  /\ NoStats.totalMemories = 0
  /\ NoStats.totalConversations = 0
  /\ DOMAIN NoStats.categories = {}

\* C6 as claimed: after clearMemories the store is empty, getMemoryStats returns
\* zeros, and the stored item encodes the empty store.
C6_ClearedAndStored ==
  last.op = "clearMemories" => Cleared /\ storage = Item(Stringify(EmptyManager))

\* C6: from any reachable state, after clearMemories the entries and the sessions
\* are empty, there is no current session, getMemoryStats returns totalMemories 0,
\* totalConversations 0 and no categories, and, when the storage write succeeds,
\* the stored item encodes that empty store.
C6_ClearedAndStoredIfWritten ==
  last.op = "clearMemories" =>
    /\ Cleared
    /\ last.outcome = "returned"
    /\ last.wrote => storage = Item(Stringify(EmptyManager))

\* clearMemories ran, and wrote, while a call that had added entries was suspended
C6_Witness ==
  /\ last.op = "clearMemories" /\ last.wrote
  /\ pending # <<>>
  /\ Head(pending).memories # <<>>
  /\ storage = Item(Stringify(EmptyManager))

StoredLinked ==
  storage.kind = "text" => Linked(LoadFromStorage(storage, TRUE))

\* C9: no Manager operation is called between the start of an addMessage and the
\* resolution of its promise, so that no operation observes or stores a store that
\* holds a message's entries and not yet its message record.
C9_RunToCompletion ==
  /\ ~overlapped
  /\ StoredLinked

\* The results of a search as a reader sees them
ReadEach(results) == [i \in 1..Len(results) |-> Read(results[i])]

\* The manager a new page loads from what saveToStorage writes now
Reloaded == LoadFromStorage(SaveToStorage(Manager, storage, TRUE).stored, TRUE)

\* C3: for every reachable state, saving the store and loading it into a new
\* Manager gives a store where getMemoryStats returns the same, searchMemories
\* returns the same entries in the same order for the same query, limit and clock,
\* and the current-session id is the same.
C3_RoundTrip ==
  /\ GetMemoryStats(MapValues(Reloaded.memories), MapValues(Reloaded.conversations))
       = GetMemoryStats(MapValues(memories), MapValues(conversations))
  /\ \A query \in Queries, limit \in Limits :
       ReadEach(SearchMemories(MapValues(Reloaded.memories), query, limit, now))
         = ReadEach(SearchMemories(MapValues(memories), query, limit, now))
  /\ Reloaded.currentSessionId = currentSessionId

\* Two entries of different ages that a search returns in the other order than the
\* store holds them
C3_Witness ==
  /\ Len(memories) >= 2
  /\ \E i, j \in 1..Len(memories) : memories[i][2].timestamp # memories[j][2].timestamp
  /\ \E query \in Queries :
       /\ Len(SearchMemories(MapValues(memories), query, 10, now)) >= 2
       /\ SearchMemories(MapValues(memories), query, 10, now)[1] # memories[1][2]
  /\ currentSessionId # Null

\* C10, for the search the last step made
C10Holds(results, query, limit, t) ==
  /\ Len(results) <= limit
  /\ \A i \in 1..Len(results) :
       /\ \E k \in 1..Len(memories) : memories[k][2] = results[i]
       /\ Score(results[i], query, t) > 0
  /\ \A i, j \in 1..Len(results) :
       i < j => /\ Score(results[i], query, t) >= Score(results[j], query, t)
                /\ results[i] # results[j]
  /\ \A k \in 1..Len(memories) :
       (\A i \in 1..Len(results) : results[i] # memories[k][2]) =>
         \A i \in 1..Len(results) :
           Score(memories[k][2], query, t) <= Score(results[i], query, t)

\* C10: for every store, query and limit, searchMemories returns at most limit
\* entries of the store, each with a score above 0, in non-increasing order of
\* score, and no entry it leaves out has a score above that of one it returns.
C10_SearchReturnsTheTop ==
  last.op = "searchMemories" => C10Holds(last.ret, last.query, last.limit, last.at)

\* A search with limit 1 returned the better of two matching entries, which is not
\* the first of the store
C10_Witness ==
  /\ last.op = "searchMemories"
  /\ last.limit = 1
  /\ Len(last.ret) = 1
  /\ last.ret[1] # memories[1][2]
  /\ \E k \in 1..Len(memories) :
       /\ memories[k][2] # last.ret[1]
       /\ Score(memories[k][2], last.query, last.at) > 0
       /\ Score(memories[k][2], last.query, last.at) < Score(last.ret[1], last.query, last.at)

\* C7, for one step and one session: the summary and the key topics are computed
\* anew, from the messages, in a step that appends the session's 10th, 20th, ...
\* message, and stay as they are in every other step
C7Step(before, after) ==
  IF /\ Len(after.messages) = Len(before.messages) + 1
     /\ Len(after.messages) % 10 = 0
  THEN /\ after.summary = UpdateConversationSummary(after).summary
       /\ after.keyTopics = UpdateConversationSummary(after).keyTopics
       /\ last'.op = "addMessage" /\ last'.step = "resume" /\ last'.outcome = "pending"
  ELSE /\ after.summary = before.summary
       /\ after.keyTopics = before.keyTopics
       /\ ~(last'.op = "addMessage" /\ last'.step = "resume" /\ last'.outcome = "pending"
            /\ Head(pending).conversation = before.sessionId)

\* C7: for every session and every sequence of addMessage calls, the session's
\* summary and keyTopics are recomputed during an addMessage exactly when that call
\* brings the session's message count to a multiple of 10; every other addMessage
\* leaves them unchanged.
C7_SummaryEveryTenth ==
  [][\A sid \in MapKeys(conversations) :
       /\ MapHas(conversations', sid)
       /\ C7Step(MapGet(conversations, sid), MapGet(conversations', sid))]_vars

\* A session of 21 messages whose summary is the one computed at the 20th, not the
\* one of the 10th nor one that includes the 21st
C7_Witness ==
  \E i \in 1..Len(conversations) :
    /\ Len(conversations[i][2].messages) = 21
    /\ conversations[i][2].keyTopics = << <<"f","e","v","e","r">>, <<"r","a","s","h">>, <<"p","a","i","n">> >>
    /\ conversations[i][2].keyTopics
         # ExtractKeyTopicsFromMessages(conversations[i][2].messages)
    /\ conversations[i][2].summary = <<"R","e","c","e","n","t"," ","d","i","s","c","u","s","s","i","o","n"," ","a","b","o","u","t"," ","r","a","s","h",","," ","p","a","i","n">>

\* The stored item is one loadFromStorage can read to its end
Deserializable(stored) ==
  /\ stored.kind = "text"
  /\ IsArray(OrEmptyArray(stored.json, "memories"))
  /\ IsArray(OrEmptyArray(stored.json, "conversations"))
  /\ \A i \in 1..Len(OrEmptyArray(stored.json, "conversations").array) :
       /\ "messages" \in DOMAIN OrEmptyArray(stored.json, "conversations").array[i][2]
       /\ IsArray(OrEmptyArray(stored.json, "conversations").array[i][2].messages)

\* C4: when the stored item is absent or cannot be read to its end (no JSON, or
\* JSON with missing or ill-typed fields, such as a session without a messages
\* list), the store is empty after construction: no entries, no sessions, no
\* current session.
C4_LoadsAllOrNothing ==
  (last.op = "constructor" /\ ~(storageWorks /\ Deserializable(storage))) =>
    /\ memories = <<>>
    /\ conversations = <<>>
    /\ NoCurrentSession(Manager)

\* The summary of the current session, or none
CurrentSummary ==
  IF ~NoCurrentSession(Manager) /\ MapHas(conversations, currentSessionId)
  THEN MapGet(conversations, currentSessionId).summary
  ELSE <<>>

\* C11: getRelevantMemories(query) returns the contents of searchMemories(query, 5),
\* in the same order and at most 5 of them, after the current session's summary as
\* first element exactly when there is a current session and its summary is not
\* empty; the summary of a session that is not current is never included.
C11_RelevantMemories ==
  last.op = "getRelevantMemories" =>
    LET found == SearchMemories(MapValues(memories), last.query, 5, last.at)
    IN  /\ Len(found) <= 5
        /\ IF CurrentSummary # <<>>
           THEN /\ Len(last.ret) = Len(found) + 1
                /\ last.ret[1] = CurrentSummary
                /\ \A i \in 1..Len(found) : last.ret[i + 1] = found[i].content
           ELSE /\ Len(last.ret) = Len(found)
                /\ \A i \in 1..Len(found) : last.ret[i] = found[i].content
                /\ \A i \in 1..Len(conversations), k \in 1..Len(last.ret) :
                     conversations[i][2].summary # <<>> =>
                       last.ret[k] # conversations[i][2].summary

\* The current session, second of the store, has a summary, another than the first
\* session's; the call returned it before five of the ten matching contents
C11_Witness ==
  /\ last.op = "getRelevantMemories"
  /\ Len(conversations) = 2
  /\ currentSessionId = conversations[2][1]
  /\ conversations[1][2].summary # <<>>
  /\ CurrentSummary # <<>>
  /\ CurrentSummary # conversations[1][2].summary
  /\ Len(last.ret) = 6
  /\ last.ret[1] = CurrentSummary
  /\ Len(memories) > 5

\* The entries of the store
Entries == MapValues(memories)

\* The age of the entry, in days
AgeOf(memory) == now - GetTime(memory.timestamp)

\* The place of the entry in the list, or 0
PlaceIn(results, memory) ==
  IF \E i \in 1..Len(results) : results[i] = memory
  THEN CHOOSE i \in 1..Len(results) : results[i] = memory
  ELSE 0

\* C12: for every query and two stored entries of the same content and tags, one a
\* day old and one 40 days old, of whatever categories, the score of the fresher is
\* at least that of the older, and searchMemories never ranks the fresher after the
\* older: where it returns the older, it returns the fresher before it.
C12_FresherRanksFirst ==
  \A i, j \in 1..Len(Entries), query \in Queries :
    (/\ Entries[i].content = Entries[j].content
     /\ Entries[i].tags = Entries[j].tags
     /\ AgeOf(Entries[i]) = 1
     /\ AgeOf(Entries[j]) = 40) =>
      /\ Score(Entries[i], query, now) >= Score(Entries[j], query, now)
      /\ \A limit \in Limits :
           LET results == SearchMemories(Entries, query, limit, now)
           IN  PlaceIn(results, Entries[j]) # 0 =>
                 /\ PlaceIn(results, Entries[i]) # 0
                 /\ PlaceIn(results, Entries[i]) < PlaceIn(results, Entries[j])

\* A search returned a user_preference entry 40 days old after a case_context entry
\* of the same content a day old, which is of less importance and later in the store
C12_Witness ==
  /\ last.op = "searchMemories" /\ last.at = now
  /\ \E i, j \in 1..Len(Entries) :
       /\ Entries[i].content = Entries[j].content
       /\ Entries[i].tags = Entries[j].tags
       /\ AgeOf(Entries[i]) = 1 /\ Entries[i].category = "case_context"
       /\ AgeOf(Entries[j]) = 40 /\ Entries[j].category = "user_preference"
       /\ j < i
       /\ PlaceIn(last.ret, Entries[j]) # 0
       /\ PlaceIn(last.ret, Entries[i]) # 0
       /\ PlaceIn(last.ret, Entries[i]) < PlaceIn(last.ret, Entries[j])

\* C13: for every entry and query, however old the entry, its score is at least 0.1
\* times its importance times its lexical base score (here: 3 of the 30 parts of
\* the decay), so that an entry with a positive base score has a positive score and
\* no search drops it for its age.
C13_DecayFloor ==
  \A query \in Queries :
    LET results == SearchMemories(Entries, query, Len(Entries), now)
    IN  \A i \in 1..Len(Entries) :
          /\ Score(Entries[i], query, now)
               >= 3 * Entries[i].importance * BaseScore(Entries[i], query)
          /\ BaseScore(Entries[i], query) > 0 =>
               /\ Score(Entries[i], query, now) > 0
               /\ PlaceIn(results, Entries[i]) # 0

\* A search returned an entry 400 days old, at the floor of its score
C13_Witness ==
  /\ last.op = "searchMemories" /\ last.at = now
  /\ \E i \in 1..Len(Entries) :
       /\ AgeOf(Entries[i]) = 400
       /\ PlaceIn(last.ret, Entries[i]) # 0
       /\ Score(Entries[i], last.query, now)
            = 3 * Entries[i].importance * BaseScore(Entries[i], last.query)


\* The content in lower case has one of the words in it
HasOneOf(content, words) == \E word \in words : Includes(ToLowerCase(content), word)

\* The categories and importances (in tenths) the three rules give a message, in
\* the order of the rules
RulesFor(role, content) ==
  (IF role = "assistant"
      /\ HasOneOf(content, {<<"d","i","a","g","n","o","s","i","s">>, <<"t","r","e","a","t","m","e","n","t">>, <<"m","e","d","i","c","a","t","i","o","n">>})
   THEN <<[category |-> "medical_fact", importance |-> 8]>> ELSE <<>>)
  \o (IF role = "user" /\ HasOneOf(content, {<<"p","r","e","f","e","r">>, <<"a","l","w","a","y","s">>, <<"n","e","v","e","r">>})
      THEN <<[category |-> "user_preference", importance |-> 9]>> ELSE <<>>)
  \o (IF HasOneOf(content, {<<"p","a","t","i","e","n","t">>, <<"c","a","s","e">>, <<"y","e","a","r"," ","o","l","d">>})
      THEN <<[category |-> "case_context", importance |-> 7]>> ELSE <<>>)

\* C14: the entries addMessage extracts from a message are those of the three rules,
\* each checked on its own and in this order: medical_fact of importance 0.8 if and
\* only if the role is assistant and the content has diagnosis, treatment or
\* medication in it; user_preference of importance 0.9 if and only if the role is
\* user and the content has prefer, always or never in it; case_context of
\* importance 0.7 if and only if the content has patient, case or year old in it,
\* whatever the role (all in any case of letters).  Each entry has the content of
\* the message, and a message no rule matches has no entry.
C14_ExtractionRules ==
  last.op = "addMessage" =>
    /\ [i \in 1..Len(last.call.memories) |->
          [category |-> last.call.memories[i].category,
           importance |-> last.call.memories[i].importance]]
         = RulesFor(last.call.role, last.call.content)
    /\ \A i \in 1..Len(last.call.memories) :
         last.call.memories[i].content = last.call.content

\* An addMessage of the assistant's extracted a medical_fact and a case_context
\* entry from one message, and an earlier message of this session has no entry
C14_Witness ==
  /\ last.op = "addMessage" /\ last.step = "resume"
  /\ last.call.role = "assistant"
  /\ Len(last.call.memories) = 2
  /\ last.call.memories[1].category = "medical_fact"
  /\ last.call.memories[2].category = "case_context"
  /\ MapHas(memories, last.call.memories[1].id)
  /\ MapHas(memories, last.call.memories[2].id)
  /\ \E i \in 1..Len(Held(last.call).messages) :
       Held(last.call).messages[i].memories = <<>>

\* The step is a call of startSession
IsStartSession ==
  /\ last'.op = "startSession"
  /\ randomDraws' = randomDraws + 1

\* What a call of startSession leaves in memory: a new session, empty and current,
\* after the sessions there were, which are as they were, and the entries as they
\* were
StartSessionFrame ==
  /\ last'.outcome = "returned"
  /\ ~MapHas(conversations, last'.ret)
  /\ MapHas(conversations', last'.ret)
  /\ MapGet(conversations', last'.ret).sessionId = last'.ret
  /\ MapGet(conversations', last'.ret).messages = <<>>
  /\ MapGet(conversations', last'.ret).summary = <<>>
  /\ MapGet(conversations', last'.ret).keyTopics = <<>>
  /\ MapGet(conversations', last'.ret).startTime = NewDate(now)
  /\ MapGet(conversations', last'.ret).lastActivity
       = MapGet(conversations', last'.ret).startTime
  /\ currentSessionId' = last'.ret
  /\ Len(conversations') = Len(conversations) + 1
  /\ \A i \in 1..Len(conversations) : conversations'[i] = conversations[i]
  /\ memories' = memories

IsClearMemories ==
  /\ last'.op = "clearMemories"
  /\ storageWorks' = storageWorks
  /\ now' = now

\* The step is a page load, which makes a new Manager
IsConstruct ==
  /\ last'.op = "constructor"
  /\ last.op # "constructor"

\* The sequence starts with the other
IsPrefix(short, long) ==
  /\ Len(short) <= Len(long)
  /\ \A i \in 1..Len(short) : long[i] = short[i]

\* Every entry and every session of the store is in the store after the step, in its
\* place, the entry as it was and the session with the message records it had, as
\* they were, before any new ones
StoreGrows ==
  /\ IsPrefix(memories, memories')
  /\ Len(conversations) <= Len(conversations')
  /\ \A i \in 1..Len(conversations) :
       /\ conversations'[i][1] = conversations[i][1]
       /\ IsPrefix(conversations[i][2].messages, conversations'[i][2].messages)

\* C16: every step of a Manager but a clearMemories leaves every stored entry in
\* the store unchanged and every session in the store, its existing message records
\* unchanged, in their places and before any new one: messages only grow by
\* appending, and entries and sessions disappear only through clearMemories.
C16_OnlyClearRemoves ==
  [][~IsClearMemories /\ ~IsConstruct => StoreGrows]_vars

\* A second message was appended to a session after its first, with the entries of
\* the first still in the store
C16_Witness ==
  /\ last.op = "addMessage" /\ last.step = "resume"
  /\ \E i \in 1..Len(conversations) :
       /\ Len(conversations[i][2].messages) = 2
       /\ conversations[i][2].messages[1].memories # <<>>
       /\ \A j \in 1..Len(conversations[i][2].messages[1].memories) :
            MapHas(memories, conversations[i][2].messages[1].memories[j])
       /\ conversations[i][2].messages[2].content = last.call.content

\* The session objects of the store and those suspended calls hold
Sessions ==
  {conversations[i][2] : i \in 1..Len(conversations)}
    \cup {detached[sid] : sid \in DOMAIN detached}

SessionsNext ==
  {conversations'[i][2] : i \in 1..Len(conversations')}
    \cup {detached'[sid] : sid \in DOMAIN detached'}

\* lastActivity is not before startTime nor before the timestamp of a message
ActivityIsLatest(conversation) ==
  /\ GetTime(conversation.lastActivity) >= GetTime(conversation.startTime)
  /\ \A k \in 1..Len(conversation.messages) :
       GetTime(conversation.lastActivity) >= GetTime(conversation.messages[k].timestamp)

\* The step appends a message to the session
AppendsTo(before, after) ==
  /\ after.sessionId = before.sessionId
  /\ Len(after.messages) = Len(before.messages) + 1

\* C17: in every step, a session's lastActivity does not decrease and, after the
\* step, is not earlier than its startTime nor than the timestamp of any of its
\* messages; and the step of addMessage that appends a message to the session sets
\* lastActivity to the time of the append, which is the timestamp of that message.
C17_LastActivity ==
  [][/\ \A after \in SessionsNext : ActivityIsLatest(after)
     /\ \A before \in Sessions, after \in SessionsNext :
          after.sessionId = before.sessionId =>
            /\ GetTime(after.lastActivity) >= GetTime(before.lastActivity)
            /\ AppendsTo(before, after) =>
                 /\ GetTime(after.lastActivity) = now
                 /\ after.messages[Len(after.messages)].timestamp = after.lastActivity]_vars

\* A message was appended 40 days after the session's start to a session that had a
\* message of an earlier day
C17_Witness ==
  /\ last.op = "addMessage" /\ last.step = "resume"
  /\ now = 40
  /\ \E conversation \in Sessions :
       /\ conversation.sessionId = last.call.conversation
       /\ Len(conversation.messages) = 2
       /\ GetTime(conversation.startTime) = 0
       /\ GetTime(conversation.messages[1].timestamp) = 1
       /\ GetTime(conversation.lastActivity) = 40

\* The list has each session of the map exactly once and nothing else
EachOnce(list, convs) ==
  /\ Len(list) = Len(convs)
  /\ \A i \in 1..Len(convs) :
       Cardinality({j \in 1..Len(list) : list[j] = convs[i][2]}) = 1

\* No session of the list has a later lastActivity than one before it
LatestFirst(list) ==
  \A i, j \in 1..Len(list) :
    i < j => GetTime(list[i].lastActivity) >= GetTime(list[j].lastActivity)

\* C19: getConversationHistory returns every session of the store exactly once, in
\* an order in which lastActivity does not increase, and leaves the entries, the
\* sessions and their order in the map, the current-session id and the stored item
\* as they were.
C19_HistoryLatestFirst ==
  [][last'.op = "getConversationHistory" =>
       /\ EachOnce(last'.ret, conversations)
       /\ LatestFirst(last'.ret)
       /\ UNCHANGED <<memories, conversations, currentSessionId, storage>>]_vars

\* The history of three sessions was returned in another order than the map's, with
\* two sessions of one lastActivity among them
C19_Witness ==
  /\ last.op = "getConversationHistory"
  /\ Len(last.ret) = 3
  /\ last.ret # MapValues(conversations)
  /\ EachOnce(last.ret, conversations)
  /\ GetTime(last.ret[1].lastActivity) > GetTime(last.ret[3].lastActivity)
  /\ \E i \in 1..2 : last.ret[i].lastActivity = last.ret[i + 1].lastActivity

\* The sum of the counts of the categories in S
RECURSIVE SumOver(_, _)
SumOver(counts, S) ==
  IF S = {} THEN 0
  ELSE LET c == CHOOSE c \in S : TRUE
       IN  counts[c] + SumOver(counts, S \ {c})

\* What getMemoryStats returns in this state and in the next
Stats == GetMemoryStats(MapValues(memories), MapValues(conversations))

StatsNext == GetMemoryStats(MapValues(memories'), MapValues(conversations'))

\* C18: getMemoryStats leaves the entries, the sessions, the current-session id and
\* the stored item as they were; what it returns is what a call in the state it
\* leaves returns, and no read operation or move of the clock after it changes what
\* the next call returns; totalMemories is the sum of the counts of the categories
\* and totalConversations the number of sessions.
C18_StatsPureRead ==
  [][/\ last'.op = "getMemoryStats" =>
          /\ UNCHANGED <<memories, conversations, currentSessionId, storage>>
          /\ last'.ret = StatsNext
          /\ last'.ret.totalMemories
               = SumOver(last'.ret.categories, DOMAIN last'.ret.categories)
          /\ last'.ret.totalMemories = Len(memories)
          /\ last'.ret.totalConversations = Len(conversations)
     /\ last'.op \in {"getMemoryStats", "searchMemories"} => StatsNext = Stats]_vars

\* getMemoryStats returned the count of two entries of one category, extracted from
\* two messages of one session
C18_Witness ==
  /\ last.op = "getMemoryStats"
  /\ last.ret = Stats
  /\ last.ret.totalMemories = 2
  /\ last.ret.totalConversations = 1
  /\ \E c \in DOMAIN last.ret.categories : last.ret.categories[c] = 2

\* C20: whatever the role and the content, a string or not, the promise addMessage
\* returns is not rejected, and resolves to the empty list where no rule extracts an
\* entry.
C20_AddMessageNeverFails ==
  (last.op = "addMessage" /\ last.outcome # "pending") =>
    /\ last.outcome = "returned"
    /\ last.call.memories = <<>> => last.ret = <<>>

\* C21: the list of entries the extractor returns is the same for the same content,
\* role and time, whatever was drawn before, and the call of the extractor leaves
\* the entries map as it was (an addMessage up to its first await changes the
\* sessions and the current-session id only through its startSession).
C21_ExtractorIsPure ==
  [][IsCall =>
       /\ \A r \in 0..MaxDraws :
            ExtractMemoriesFromContent(last'.call.content, last'.call.role, now, r)
              = last'.call.memories
       /\ memories' = memories]_vars

\* The characters that are whitespace
Whitespace == {" ", "\t", "\n"}

\* The pieces of the string between its whitespace characters
RECURSIVE WordsFrom(_, _, _)
WordsFrom(s, i, piece) ==
  IF i > Len(s) THEN <<piece>>
  ELSE IF s[i] \in Whitespace THEN <<piece>> \o WordsFrom(s, i + 1, <<>>)
  ELSE WordsFrom(s, i + 1, Append(piece, s[i]))

\* The whitespace-split terms of the query that are longer than 2 characters
StatedTerms(query) ==
  SelectSeq(WordsFrom(ToLowerCase(query), 1, <<>>), LAMBDA term : Len(term) > 2)

\* 2 if the content contains the term and 3 if some tag contains it, over the terms
RECURSIVE StatedTermsScore(_, _)
StatedTermsScore(memory, terms) ==
  IF terms = <<>> THEN 0
  ELSE (IF Includes(ToLowerCase(memory.content), Head(terms)) THEN 2 ELSE 0)
       + (IF \E k \in 1..Len(memory.tags) : Includes(ToLowerCase(memory.tags[k]), Head(terms))
          THEN 3 ELSE 0)
       + StatedTermsScore(memory, Tail(terms))

\* The score as stated, times 300: importance is in tenths and max(0.1, 1 - age/30)
\* in thirtieths
StatedScore(memory, query, t) ==
  ((IF Includes(ToLowerCase(memory.content), ToLowerCase(query)) THEN 10 ELSE 0)
   + StatedTermsScore(memory, StatedTerms(query)))
  * memory.importance
  * (IF 30 - (t - GetTime(memory.timestamp)) > 3
     THEN 30 - (t - GetTime(memory.timestamp)) ELSE 3)

\* C22: the score searchMemories gives an entry is 10 if the lowercased content
\* contains the whole lowercased query, plus, for each whitespace-split term of the
\* query longer than 2 characters, 2 if the content contains the term and 3 if some
\* tag contains it, that sum times the importance and times max(0.1, 1 - ageDays/30).
C22_ScoreAsStated ==
  (last.op = "searchMemories" /\ last.at = now) =>
    \A i \in 1..Len(Entries) :
      Score(Entries[i], last.query, now) = StatedScore(Entries[i], last.query, now)

\* The step is the recompute of the summary of the session a call holds
IsSummary ==
  /\ pending # <<>>
  /\ Head(pending).pc = "extracted"
  /\ last'.op = "addMessage" /\ last'.step = "resume" /\ last'.outcome = "pending"

\* The words of the vocabulary that occur in some of the messages, in the order of
\* the vocabulary
TopicsOf(messages) ==
  SelectSeq(conditions,
            LAMBDA word : \E k \in 1..Len(messages) :
                            Includes(ToLowerCase(messages[k].content), word))

\* The last 10 of the messages
LastTen(messages) ==
  [k \in 1..(IF Len(messages) < 10 THEN Len(messages) ELSE 10) |->
     messages[Len(messages) - (IF Len(messages) < 10 THEN Len(messages) ELSE 10) + k]]

\* What the session is after a recompute of its summary
Summarized(conversation) ==
  /\ conversation.keyTopics = TopicsOf(conversation.messages)
  /\ Cardinality(Range(conversation.keyTopics)) = Len(conversation.keyTopics)
  /\ conversation.summary
       = <<"R","e","c","e","n","t"," ","d","i","s","c","u","s","s","i","o","n"," ","a","b","o","u","t"," ">>
           \o Join(TopicsOf(LastTen(conversation.messages)), <<","," ">>)
  /\ Range(TopicsOf(LastTen(conversation.messages))) \subseteq Range(conversation.keyTopics)
  /\ conversation.summary # <<>>

\* C23: after each recompute of a session's summary, keyTopics is the words of the
\* condition vocabulary that occur anywhere in the messages of the session, each
\* once, and the summary names those that occur in the last 10 messages, which are
\* among keyTopics; the summary is not empty, also when it names no word.
C23_TopicsOfAllSummaryOfRecent ==
  [][IsSummary =>
       \E conversation \in SessionsNext :
         /\ conversation.sessionId = Head(pending).conversation
         /\ Len(conversation.messages) % 10 = 0
         /\ Summarized(conversation)]_vars

\* The summary of a session of 20 messages was recomputed: it names no word, and
\* keyTopics has the two words of the first 10 messages
C23_Witness ==
  /\ last.op = "addMessage" /\ last.step = "resume" /\ last.outcome = "pending"
  /\ \E conversation \in Sessions :
       /\ conversation.sessionId = last.call.conversation
       /\ Len(conversation.messages) = 20
       /\ conversation.keyTopics = << <<"f","e","v","e","r">>, <<"c","o","u","g","h">> >>
       /\ conversation.summary = <<"R","e","c","e","n","t"," ","d","i","s","c","u","s","s","i","o","n"," ","a","b","o","u","t"," ">>
       /\ Summarized(conversation)

\* The specialty of the first rule, in the listed order, a keyword of which occurs
\* in the content
StatedSpecialty(content) ==
  IF HasOneOf(content, {<<"h","e","a","r","t">>, <<"c","a","r","d","i","a","c">>}) THEN <<"c","a","r","d","i","o","l","o","g","y">>
  ELSE IF HasOneOf(content, {<<"b","r","a","i","n">>, <<"n","e","u","r","o">>}) THEN <<"n","e","u","r","o","l","o","g","y">>
  ELSE IF HasOneOf(content, {<<"c","a","n","c","e","r">>, <<"t","u","m","o","r">>}) THEN <<"o","n","c","o","l","o","g","y">>
  ELSE IF HasOneOf(content, {<<"d","i","a","b","e","t","e","s">>, <<"h","o","r","m","o","n","e">>}) THEN <<"e","n","d","o","c","r","i","n","o","l","o","g","y">>
  ELSE IF HasOneOf(content, {<<"s","t","o","m","a","c","h">>, <<"i","n","t","e","s","t","i","n">>}) THEN <<"g","a","s","t","r","o","e","n","t","e","r","o","l","o","g","y">>
  ELSE IF HasOneOf(content, {<<"l","u","n","g">>, <<"r","e","s","p","i","r","a","t","o","r","y">>}) THEN <<"p","u","l","m","o","n","o","l","o","g","y">>
  ELSE IF HasOneOf(content, {<<"k","i","d","n","e","y">>, <<"r","e","n","a","l">>}) THEN <<"n","e","p","h","r","o","l","o","g","y">>
  ELSE IF HasOneOf(content, {<<"i","n","f","e","c","t","i","o","n">>, <<"b","a","c","t","e","r","i","a">>}) THEN <<"i","n","f","e","c","t","i","o","u","s"," ","d","i","s","e","a","s","e">>
  ELSE IF HasOneOf(content, {<<"e","m","e","r","g","e","n","c","y">>, <<"u","r","g","e","n","t">>}) THEN <<"e","m","e","r","g","e","n","c","y"," ","m","e","d","i","c","i","n","e">>
  ELSE <<"g","e","n","e","r","a","l"," ","p","e","d","i","a","t","r","i","c","s">>

\* C24: the specialty of the medical_fact entry of a message is that of the first
\* rule, in the order cardiology, neurology, oncology, endocrinology,
\* gastroenterology, pulmonology, nephrology, infectious disease, emergency
\* medicine, one of whose keywords occurs in the content, and general pediatrics
\* when none occurs; content with both heart and brain gives cardiology.
C24_FirstSpecialtyWins ==
  last.op = "addMessage" =>
    \A i \in 1..Len(last.call.memories) :
      last.call.memories[i].category = "medical_fact" =>
        /\ last.call.memories[i].metadata.medical_specialty
             = StatedSpecialty(last.call.content)
        /\ (HasOneOf(last.call.content, {<<"h","e","a","r","t">>})
            /\ HasOneOf(last.call.content, {<<"b","r","a","i","n">>})) =>
             last.call.memories[i].metadata.medical_specialty = <<"c","a","r","d","i","o","l","o","g","y">>

\* A message that names the brain before the heart has an entry of cardiology
C24_Witness ==
  /\ last.op = "addMessage" /\ last.step = "resume"
  /\ last.call.content = <<"t","r","e","a","t","m","e","n","t",":"," ","b","r","a","i","n"," ","a","n","d"," ","h","e","a","r","t">>
  /\ Len(last.call.memories) = 1
  /\ last.call.memories[1].category = "medical_fact"
  /\ last.call.memories[1].metadata.medical_specialty = <<"c","a","r","d","i","o","l","o","g","y">>
  /\ MapHas(memories, last.call.memories[1].id)

\* C25: in every state the current-session id is null or the id of a session of
\* the sessions map, and no addMessage returns at its lookup of the session, with
\* the message dropped: after a page load from an item the Manager wrote and after
\* any startSession, addMessage and clearMemories, in every interleaving.
C25_CurrentSessionIsStored ==
  /\ currentSessionId = Null \/ MapHas(conversations, currentSessionId)
  /\ (last.op = "addMessage" /\ last.step = "call") => last.outcome = "pending"

\* A page load from an item the Manager wrote has left a current session that is
\* in the sessions map, with its message and the entry of the message
C25_Witness ==
  /\ last.op = "constructor"
  /\ storage.kind = "text"
  /\ currentSessionId # Null
  /\ MapHas(conversations, currentSessionId)
  /\ MapGet(conversations, currentSessionId).messages # <<>>
  /\ memories # <<>>

\* The last message of the session of the call is the message of the call
LastMessageIs(sid, call) ==
  /\ MapHas(conversations, sid)
  /\ MapGet(conversations, sid).messages # <<>>
  /\ LET messages == MapGet(conversations, sid).messages
     IN  /\ messages[Len(messages)].role = call.role
         /\ messages[Len(messages)].content = call.content

\* When getRelevantMemories is called in a turn, the user's message is in its
\* session, its entries are in the store, and the call returns their content
RetrievesOwnEntries ==
  /\ last'.op = "getRelevantMemories"
  /\ last'.query = turn.call.content
  /\ \E k \in 1..Len(MapGet(conversations, turn.call.conversation).messages) :
       MapGet(conversations, turn.call.conversation).messages[k].content
         = turn.call.content
  /\ \A i \in 1..Len(turn.call.memories) :
       /\ MapHas(memories, turn.call.memories[i].id)
       /\ Len(memories) <= RelevantLimit =>
            \E k \in 1..Len(last'.ret) : last'.ret[k] = turn.call.content

\* C26: in a chat turn getRelevantMemories is called with the text of the user's
\* message after that message was added, and it finds the entries extracted from
\* the message in the store and returns their content; the assistant's reply is
\* added after that, when the stream has ended; and a turn that fails leaves the
\* user's message as the last of its session, with no message of the assistant
\* after it.
C26_TurnOrder ==
  [][/\ (turn.pc = "user" /\ turn'.pc = "stream") =>
          /\ MapHas(conversations, turn.call.conversation)
          /\ RetrievesOwnEntries
     /\ (turn.pc = "stream" /\ turn'.pc = "assistant") =>
          /\ last'.call.role = "assistant"
          /\ turn.call.role = "user"
     /\ (turn.pc # "idle" /\ turn'.pc = "idle" /\ last'.op = "handleSendMessage") =>
          LastMessageIs(turn.call.conversation, turn.call)]_vars

\* The categories of the entries, in their order
Categories(entries) == [i \in 1..Len(entries) |-> entries[i].category]

\* C27: addMessage returns at most two ids, those of the entries it extracted; no
\* message has both a medical_fact and a user_preference entry extracted from it;
\* and when two entries are extracted they are a medical_fact or a user_preference
\* entry and then a case_context entry, both with the content of the message and
\* with the same tags.
C27_AtMostTwoEntries ==
  (last.op = "addMessage" /\ last.outcome = "returned") =>
    \E entries \in {last.call.memories} :
      /\ Len(last.ret) <= 2
      /\ last.ret = Ids(entries)
      /\ ~ ({"medical_fact", "user_preference"} \subseteq Range(Categories(entries)))
      /\ Len(entries) = 2 =>
           /\ Categories(entries) \in {<<"medical_fact", "case_context">>,
                                       <<"user_preference", "case_context">>}
           /\ entries[1].content = last.call.content
           /\ entries[2].content = last.call.content
           /\ entries[1].tags = entries[2].tags

\* addMessage returned two ids for a message of the user's that has a keyword of
\* each of the three rules in it: a user_preference and a case_context entry,
\* with tags
C27_Witness ==
  /\ last.op = "addMessage" /\ last.outcome = "returned"
  /\ last.call.role = "user"
  /\ HasOneOf(last.call.content, {<<"d","i","a","g","n","o","s","i","s">>, <<"t","r","e","a","t","m","e","n","t">>, <<"m","e","d","i","c","a","t","i","o","n">>})
  /\ Len(last.ret) = 2
  /\ Categories(last.call.memories) = <<"user_preference", "case_context">>
  /\ last.call.memories[1].tags # <<>>

\* Terms to score the entries on: whole tags, parts of tags, words of contents, and
\* words of neither
ProbeTerms ==
  { <<"t","r","e","a","t","m","e","n","t">>, <<"t","r","e","a","t">>, <<"n","e","v","e","r">>, <<"c","a","s","e">>, <<"e","a","t">>, <<"f","e","v","e","r">>, <<"m","e","n","t">> }

\* The term is in the lowercased content: the +2 of the score
ContentBonus(memory, term) == Includes(ToLowerCase(memory.content), term)

\* The term is in some lowercased tag: the +3 of the score
TagBonus(memory, term) ==
  \E k \in 1..Len(memory.tags) : Includes(ToLowerCase(memory.tags[k]), term)

\* The terms of the query of the last search, and the terms to probe
TermsOf(query) == Range(SearchTerms(ToLowerCase(query)))

\* C28: for every stored entry that addMessage extracted and every term of a
\* query, each tag of the entry is in its lowercased content, so a term that is in
\* a tag is in the content too, and the term adds 0, 2 or 5 to the score before
\* importance and recency, never 3.
C28_TagBonusImpliesContentBonus ==
  \A i \in 1..Len(Entries) :
    /\ \A k \in 1..Len(Entries[i].tags) :
         Includes(ToLowerCase(Entries[i].content), Entries[i].tags[k])
    /\ \A term \in ProbeTerms \cup
                   (IF last.op = "searchMemories" THEN TermsOf(last.query) ELSE {}) :
         /\ TagBonus(Entries[i], term) => ContentBonus(Entries[i], term)
         /\ TermScore(Entries[i], term) \in {0, 2, 5}

\* A search for two terms returned an entry with a tag that has one term of the
\* query in it, which adds 5 to its score; the other term adds 0
C28_Witness ==
  /\ last.op = "searchMemories"
  /\ \E i \in 1..Len(last.ret) :
     \E term, other \in TermsOf(last.query) :
       /\ TagBonus(last.ret[i], term) /\ ContentBonus(last.ret[i], term)
       /\ TermScore(last.ret[i], term) = 5
       /\ TermScore(last.ret[i], other) = 0

\* The entry has the lowercased query in its lowercased content: the +10
PhraseBonus(memory, query) == Includes(ToLowerCase(memory.content), ToLowerCase(query))

\* importance x decay of the entry at clock reading t, times 300
Weight(memory, t) == memory.importance * Decay(t - GetTime(memory.timestamp))

\* The list is the `limit` heaviest of the entries, the heavier first
TopByWeight(results, entries, limit, t) ==
  /\ Len(results) = (IF limit < Len(entries) THEN limit ELSE Len(entries))
  /\ \A k \in 1..Len(results) : PlaceIn(entries, results[k]) # 0
  /\ \A k, l \in 1..Len(results) :
       k < l => /\ Weight(results[k], t) >= Weight(results[l], t)
                /\ results[k] # results[l]
  /\ \A i \in 1..Len(entries) :
       PlaceIn(results, entries[i]) = 0 =>
         \A k \in 1..Len(results) : Weight(results[k], t) >= Weight(entries[i], t)

\* The query is not in the content of the entry, and none of its terms is in the
\* content or in a tag
NoOverlap(memory, query) ==
  /\ ~ PhraseBonus(memory, query)
  /\ StatedTermsScore(memory, StatedTerms(query)) = 0

\* C29: a search returns no entry that the query has no overlap with; a search for
\* the empty string gives the phrase bonus, and nothing else, to every stored
\* entry and returns the first `limit` of them in the order of importance x decay;
\* and a search for a query none of whose whitespace-split terms is longer than 2
\* characters returns only entries that have the whole query in their content.
C29_PhraseOnlyQueries ==
  last.op = "searchMemories" =>
    /\ \A i \in 1..Len(Entries) :
         NoOverlap(Entries[i], last.query) => PlaceIn(last.ret, Entries[i]) = 0
    /\ last.query = <<>> =>
         /\ \A i \in 1..Len(Entries) : BaseScore(Entries[i], last.query) = 10
         /\ TopByWeight(last.ret, Entries, last.limit, last.at)
    /\ StatedTerms(last.query) = <<>> =>
         \A k \in 1..Len(last.ret) : PhraseBonus(last.ret[k], last.query)

\* The step is a request answered by fetch: the clock stands and something of the
\* backend changes
IsFetch == workerNow' = workerNow /\ worker' # worker

\* The client has a window open now: a request of its was admitted at most 60 s ago
\* and no request of its was admitted after the reset time of that window
InWindow(ip) ==
  /\ MapHas(admitted, ip)
  /\ workerNow <= MapGet(admitted, ip).first + WindowMs

\* The entries of the other clients are as they were
OthersKept(ip) ==
  \A k \in 1..Len(rateLimitMap) :
    rateLimitMap[k][1] # ip =>
      /\ MapHas(rateLimitMap', rateLimitMap[k][1])
      /\ MapGet(rateLimitMap', rateLimitMap[k][1]) = rateLimitMap[k][2]

\* C30: of the requests of one client that are not OPTIONS requests, at most 30 are
\* admitted in a window, which is 60 s long from the first request admitted in it;
\* a request that comes in the window after 30 were admitted is answered 429 and
\* leaves the counters as they are, and no other request is answered 429; a request
\* that comes after the reset time of the window, or from a client with no window,
\* is admitted and sets the count of the client to 1 and the reset time to 60 s
\* from now; no request changes the count or the reset time of another client;
\* and an OPTIONS request is answered 200 and leaves the counters as they are.
C30_RateLimiter ==
  [][IsFetch =>
       \E ip \in {response'.clientIP} :
         /\ \A k \in 1..Len(admitted') : admitted'[k][2].n <= RequestLimit
         /\ OthersKept(ip)
         /\ response'.method = "OPTIONS" =>
              /\ response'.status = 200
              /\ rateLimitMap' = rateLimitMap
         /\ response'.method # "OPTIONS" =>
              /\ response'.status = 429 <=>
                   (InWindow(ip) /\ MapGet(admitted, ip).n = RequestLimit)
              /\ response'.status = 429 => rateLimitMap' = rateLimitMap
              /\ ~ InWindow(ip) =>
                   MapGet(rateLimitMap', ip)
                     = [count |-> 1, resetTime |-> workerNow + WindowMs]
              /\ (InWindow(ip) /\ response'.status # 429) =>
                   MapGet(rateLimitMap', ip)
                     = [count |-> MapGet(rateLimitMap, ip).count + 1,
                        resetTime |-> MapGet(admitted, ip).first + WindowMs]]_vars

\* A client with 30 requests admitted in its window had one more answered 429 at
\* the reset time of the window, while in the window of another client, opened
\* later, a request was admitted
C30_Witness ==
  /\ response.status = 429
  /\ workerNow = WindowMs
  /\ MapGet(rateLimitMap, response.clientIP) = [count |-> RequestLimit, resetTime |-> WindowMs]
  /\ \E k \in 1..Len(rateLimitMap) :
       /\ rateLimitMap[k][1] # response.clientIP
       /\ rateLimitMap[k][2] = [count |-> 1, resetTime |-> 2 * WindowMs]
====
